---- MODULE Spec2Model ----
(***************************************************************************)
(* A model of the text-interpretation layer of the Git agent: the code     *)
(* analysis service (analyzeFiles), the log, status, diff and blame        *)
(* parsers.  Texts are sequences of one-character strings, so that split,  *)
(* startsWith, substring, parseInt and the regular expressions of the      *)
(* source are computed on characters as the source computes them.          *)
(***************************************************************************)
EXTENDS Integers, Sequences, FiniteSets, TLC

VARIABLES
    \* CodeAnalysisService.analyzeFiles
    files,        \* the argument: a sequence of file paths
    fileIdx,      \* number of files the for-loop has finished
    analysis,     \* the GitAnalysis record being accumulated
    errLog,       \* paths reported through console.error
    apc,          \* "idle" | "loop" | "done"
    \* GitService.parseGitLog and parseGitLogEntry
    logRecords,   \* the commits git log was asked to print
    logLayout,    \* how the stat summary is laid out after the header line
    entryIdx,     \* the record whose block parseGitLogEntry was given
    commit,       \* what parseGitLogEntry returned
    commits,      \* what parseGitLog returned
    lpc,          \* "idle" | "start" | "entry" | "log"
    \* GitService.parseDiff
    diffInput,    \* the lines git printed, each with what git meant by it
    filePath,     \* the filePath argument
    diffLines,    \* const lines = diff.split('\n')
    diffIdx,      \* number of lines the for-loop has finished
    hunkHeap,     \* the hunk objects created so far
    currentHunk,  \* reference into hunkHeap, 0 for null
    hunks,        \* the hunks array: references into hunkHeap
    additions,
    deletions,
    dpc,          \* "idle" | "loop" | "done"
    \* GitService.parseBlame
    blameInput,   \* the blocks git blame printed, each with the lines it holds
    blameLines,   \* const lines = blame.split('\n')
    blameIdx,     \* number of lines the for-loop has finished
    current,      \* the partial GitBlame record
    results,      \* the results array
    bpc,          \* "idle" | "loop" | "done"
    \* gitParser.parseFileStatus
    statusInput,  \* the parts the status line is made of
    statusLine,   \* the statusLine argument
    fileChange,   \* the returned GitFileChange, or null
    spc,          \* "idle" | "call" | "done"
    \* GitService.getGitStatus
    porcelain,    \* the entries git status --porcelain printed
    statusOut,    \* stdout
    gitStatus,    \* the returned GitFileChange list
    gpc,          \* "idle" | "call" | "done"
    \* CommitMessageService.generateMessage
    changeList,   \* the changes argument
    style,        \* the style argument
    message,      \* the returned message
    mpc,          \* "idle" | "call" | "done" | "threw"
    \* the calls one service has served
    parsed,       \* the finished parse calls: parser, argument, result
    running,      \* the parser called last, or "none"
    callCount,    \* number of parse calls made
    \* gitParser.parseGitLogEntry on a short header
    entryInput,   \* the parts the block is made of
    shortEntry,   \* the logEntry argument
    entryCommit,  \* the returned GitCommit
    epc,          \* "idle" | "call" | "done"
    \* UpdateService
    updateStatus, \* this.status
    config,       \* auto_update and backup.enabled of this.config
    calls,        \* the calls begun, each with its position and its locals
    backups,      \* the backup paths that exist on disk
    timerOn,      \* setInterval is running
    clock,        \* the time of the last new Date()
    upc,          \* "idle" | "new" | "ready" | "failed"
    \* GitService.rollback
    options,        \* the RollbackOptions of the call
    now,            \* the time, in milliseconds
    backupTo,       \* backupPath of createBackup
    written,        \* the backup files and backup branches that exist
    ran,            \* the commands awaited so far, in order
    rollbackResult, \* the RollbackResult returned
    rpc             \* "idle" | "call" | the command awaited | "done"

analysisVars == <<files, fileIdx, analysis, errLog, apc>>

logVars == <<logRecords, logLayout, entryIdx, commit, commits, lpc>>

diffVars ==
    <<diffInput, filePath, diffLines, diffIdx, hunkHeap, currentHunk, hunks, additions, deletions, dpc>>

blameVars == <<blameInput, blameLines, blameIdx, current, results, bpc>>

statusVars == <<statusInput, statusLine, fileChange, spc>>

porcelainVars == <<porcelain, statusOut, gitStatus, gpc>>

messageVars == <<changeList, style, message, mpc>>

sessionVars == <<parsed, running, callCount>>

entryVars == <<entryInput, shortEntry, entryCommit, epc>>

updateVars == <<updateStatus, config, calls, backups, timerOn, clock, upc>>

rollbackVars == <<options, now, backupTo, written, ran, rollbackResult, rpc>>

vars == <<analysisVars, logVars, diffVars, blameVars, statusVars, porcelainVars, messageVars, sessionVars, entryVars, updateVars, rollbackVars>>

(***************************************************************************)
(* Bounds of the model.                                                    *)
(***************************************************************************)
MaxFiles == 3
BigRepeat == 9

(***************************************************************************)
(* String helpers (JavaScript String methods on character sequences).      *)
(***************************************************************************)
Min(a, b) == IF a <= b THEN a ELSE b

MaxOf(S) == CHOOSE m \in S : \A x \in S : x <= m

RECURSIVE Repeat(_, _)
Repeat(unit, k) == IF k = 0 THEN <<>> ELSE unit \o Repeat(unit, k - 1)

\* s.startsWith(p, i - 1): p occurs in s at the 1-based position i
StartsWithAt(s, p, i) ==
    /\ i >= 1
    /\ i + Len(p) - 1 <= Len(s)
    /\ \A k \in 1..Len(p) : s[i + k - 1] = p[k]

StartsWith(s, p) == StartsWithAt(s, p, 1)

\* s.includes(p)
Includes(s, p) == \E i \in 1..(Len(s) + 1) : StartsWithAt(s, p, i)

\* s.substring(n): the text from the 0-based offset n on
Substring(s, n) == IF n >= Len(s) THEN <<>> ELSE SubSeq(s, n + 1, Len(s))

\* number of characters of s that belong to the set cs
CountChars(s, cs) == Cardinality({i \in 1..Len(s) : s[i] \in cs})

\* the first position >= i where p occurs in s, 0 when there is none
IndexFrom(s, p, i) ==
    LET hits == {j \in i..Len(s) : StartsWithAt(s, p, j)}
    IN IF hits = {} THEN 0 ELSE CHOOSE j \in hits : \A k \in hits : j <= k

\* s.split(sep) for a non-empty separator string: always at least one piece
RECURSIVE SplitFrom(_, _, _)
SplitFrom(s, sep, start) ==
    LET at == IndexFrom(s, sep, start)
    IN IF at = 0 THEN <<SubSeq(s, start, Len(s))>>
       ELSE <<SubSeq(s, start, at - 1)>> \o SplitFrom(s, sep, at + Len(sep))

Split(s, sep) == SplitFrom(s, sep, 1)

\* pieces.join(sep)
RECURSIVE Join(_, _)
Join(pieces, sep) ==
    IF Len(pieces) = 0 THEN <<>>
    ELSE IF Len(pieces) = 1 THEN pieces[1]
    ELSE pieces[1] \o sep \o Join(Tail(pieces), sep)

\* the /i flag: upper-case letters fold to lower case
LowerOf ==
    [A |-> "a", B |-> "b", C |-> "c", D |-> "d", E |-> "e", F |-> "f",
     G |-> "g", H |-> "h", I |-> "i", J |-> "j", K |-> "k", L |-> "l",
     M |-> "m", N |-> "n", O |-> "o", P |-> "p", Q |-> "q", R |-> "r",
     S |-> "s", T |-> "t", U |-> "u", V |-> "v", W |-> "w", X |-> "x",
     Y |-> "y", Z |-> "z"]

ToLower(s) == [i \in 1..Len(s) |-> IF s[i] \in DOMAIN LowerOf THEN LowerOf[s[i]] ELSE s[i]]

\* the value undefined, and Invalid Date / a valid Date with its time value
Undefined == <<"undefined">>

InvalidDate == [valid |-> FALSE, ms |-> 0]

DateOf(ms) == [valid |-> TRUE, ms |-> ms]

DigitChars == <<"0", "1", "2", "3", "4", "5", "6", "7", "8", "9">>

IsDigit(ch) == \E d \in 1..10 : DigitChars[d] = ch

DigitValue(ch) == (CHOOSE d \in 1..10 : DigitChars[d] = ch) - 1

\* the index after the longest run of digits of s that starts at i (\d* greedy)
DigitsEnd(s, i) ==
    CHOOSE e \in i..(Len(s) + 1) :
        /\ \A k \in i..(e - 1) : IsDigit(s[k])
        /\ e = Len(s) + 1 \/ ~IsDigit(s[e])

RECURSIVE DigitsValue(_)
DigitsValue(ds) ==
    IF Len(ds) = 0 THEN 0
    ELSE 10 * DigitsValue(SubSeq(ds, 1, Len(ds) - 1)) + DigitValue(ds[Len(ds)])

\* parseInt(s, 10) of a text without leading blanks or sign: the value of the
\* leading digits, NaN when it has none (or is undefined)
NaN == [nan |-> TRUE, n |-> 0]

Num(n) == [nan |-> FALSE, n |-> n]

ParseInt(s) ==
    IF s = Undefined \/ Len(s) = 0 \/ ~IsDigit(s[1]) THEN NaN
    ELSE Num(DigitsValue(SubSeq(s, 1, DigitsEnd(s, 1) - 1)))

\* x || 0 for a number x
OrZero(x) == IF x.nan THEN 0 ELSE x.n

\* decimal digits of a natural number, as git prints it
RECURSIVE NatToDigits(_)
NatToDigits(n) ==
    IF n < 10 THEN <<DigitChars[n + 1]>>
    ELSE NatToDigits(n \div 10) \o <<DigitChars[(n % 10) + 1]>>

\* the index after the literal lit when s continues with it at i, else 0
After(s, i, lit) == IF i > 0 /\ StartsWithAt(s, lit, i) THEN i + Len(lit) ELSE 0

\* the same for an optional literal (lit?)
AfterOpt(s, i, lit) == IF i > 0 /\ StartsWithAt(s, lit, i) THEN i + Len(lit) ELSE i

(***************************************************************************)
(* The files analyzeFiles can be asked about.  readFile succeeds on the    *)
(* paths of FileContents and rejects on every other path.                  *)
(***************************************************************************)
KeywordRun == Repeat(<<"&", "&", "(", "|", "|", ")", ";">>, BigRepeat)

FileContents ==
    ("src/a.ts" :> <<"i", "f", "(", "a", "&", "&", "b", ")", "{", "\n", " ", "x", ";", "\n", "}">>)
    @@ ("src/b.ts" :> <<"e", "v", "a", "l", "(", "s", ")", ";", "K", "e", "y", "=", "\"", "k", "\"">>)
    @@ ("src/c.ts" :> <<"c", "o", "n", "s", "o", "l", "e", ".", "l", "o", "g", "(", "x", ")", ";", "e", ".", "i", "n", "n", "e", "r", "H", "T", "M", "L", "=", "y">>)
    @@ ("src/d.ts" :> <<"x", ".", "f", "o", "r", "E", "a", "c", "h", "(", "f", ")", ".", "m", "a", "p", "(", "g", ")", "\n", "[", ".", ".", ".", "a", "]", "\n", "[", " ", ".", ".", ".", "b", "]", "\n", "[", ".", ".", ".", "c", "]">>)
    @@ ("src/e.ts" :> <<"f", "o", "r", "(", ";", ";", ")", "{", "{", "c", "a", "s", "e", " ", "1", ":", "}", "}", "i", "f", "o", "r">>)
    @@ ("src/big.ts" :> KeywordRun)
    @@ ("empty.ts" :> <<>>)

UnreadablePaths == {"missing.ts"}

Paths == DOMAIN FileContents \cup UnreadablePaths

\* await readFile(file, 'utf-8') resolves
Readable(file) == file \in DOMAIN FileContents

(***************************************************************************)
(* calculateImpactScore.  The source computes in IEEE-754 doubles:         *)
(* Math.floor((lines * 0.3 + changes * 0.7) / 10).  The double result is   *)
(* the exact floor((3*lines + 7*changes) / 100) except at the pairs of     *)
(* ImpactRoundedDown, where rounding leaves the quotient just below an     *)
(* integer (pairs listed for lines, changes <= 80).                        *)
(***************************************************************************)
ImpactRoundedDown ==
    {<<1, 71>>, <<8, 68>>, <<9, 39>>, <<13, 23>>, <<18, 78>>, <<23, 33>>,
     <<26, 46>>, <<31, 1>>, <<36, 56>>, <<43, 53>>, <<44, 24>>, <<46, 66>>,
     <<53, 63>>, <<62, 2>>, <<72, 12>>}

ImpactDouble(lines, changes) ==
    ((3 * lines + 7 * changes) \div 100)
        - (IF <<lines, changes>> \in ImpactRoundedDown THEN 1 ELSE 0)

StructuralChars == {"{", "}", "(", ")", ";"}

calculateImpactScore(content) ==
    LET lines == CountChars(content, {"\n"}) + 1
        changes == CountChars(content, StructuralChars) + 1
    IN ImpactDouble(lines, changes)

(***************************************************************************)
(* calculateComplexityScore.  /if|while|for|&&|\|\||case/g is matched      *)
(* left to right without overlap, the alternatives tried in order.         *)
(* Math.floor((cc * 0.6 + nd * 0.4) * 5) in doubles is 3*cc + 2*nd except  *)
(* at the pairs of ComplexityRoundedDown (listed for cc <= 40, nd <= 8).   *)
(***************************************************************************)
Keywords ==
    << <<"i", "f">>, <<"w", "h", "i", "l", "e">>, <<"f", "o", "r">>,
       <<"&", "&">>, <<"|", "|">>, <<"c", "a", "s", "e">> >>

\* length of the keyword matched at position i, 0 when none matches there
KeywordLenAt(s, i) ==
    LET hits == {k \in 1..Len(Keywords) : StartsWithAt(s, Keywords[k], i)}
    IN IF hits = {} THEN 0
       ELSE Len(Keywords[CHOOSE k \in hits : \A j \in hits : k <= j])

\* the first position >= i where a keyword matches, 0 when there is none
NextKeyword(s, i) ==
    LET hits == {j \in i..Len(s) : KeywordLenAt(s, j) > 0}
    IN IF hits = {} THEN 0 ELSE CHOOSE j \in hits : \A k \in hits : j <= k

RECURSIVE CountKeywordsFrom(_, _)
CountKeywordsFrom(s, i) ==
    IF NextKeyword(s, i) = 0 THEN 0
    ELSE 1 + CountKeywordsFrom(s, NextKeyword(s, i) + KeywordLenAt(s, NextKeyword(s, i)))

CountKeywords(s) == CountKeywordsFrom(s, 1)

ComplexityRoundedDown ==
    {<<3, 1>>, <<3, 2>>, <<6, 1>>, <<6, 2>>, <<6, 4>>, <<9, 0>>, <<9, 2>>,
     <<12, 2>>, <<12, 3>>, <<12, 4>>, <<12, 8>>, <<17, 3>>, <<17, 4>>,
     <<18, 0>>, <<18, 4>>, <<18, 5>>, <<23, 7>>, <<24, 3>>, <<24, 4>>,
     <<24, 6>>, <<24, 8>>, <<27, 1>>, <<29, 1>>, <<29, 3>>, <<29, 6>>,
     <<29, 8>>, <<31, 0>>, <<31, 1>>, <<31, 3>>, <<31, 5>>, <<31, 8>>,
     <<32, 1>>, <<34, 1>>, <<34, 3>>, <<34, 6>>, <<34, 8>>, <<36, 0>>,
     <<36, 1>>, <<36, 3>>, <<36, 5>>, <<36, 8>>, <<37, 1>>, <<39, 1>>,
     <<39, 3>>}

ComplexityDoubleFlipped(cc, nd) == (2 * nd) - (3 * cc)

ComplexityDouble(cc, nd) ==
    (3 * cc + 2 * nd) - (IF <<cc, nd>> \in ComplexityRoundedDown THEN 1 ELSE 0)

NestingDepth(content) ==
    LET lines == Split(content, <<"\n">>)
    IN MaxOf({CountChars(lines[i], {"{"}) : i \in 1..Len(lines)})

calculateComplexityScore(content) ==
    ComplexityDouble(CountKeywords(content), NestingDepth(content))

(***************************************************************************)
(* analyzeSecurityIssues                                                   *)
(***************************************************************************)
CredentialWords ==
    { <<"p", "a", "s", "s", "w", "o", "r", "d">>,
      <<"s", "e", "c", "r", "e", "t">>,
      <<"k", "e", "y">> }

analyzeSecurityIssues(content, file) ==
    (IF Includes(content, <<"e", "v", "a", "l", "(">>)
     THEN << [severity |-> "high",
              description |-> "Use of eval() can lead to code injection vulnerabilities",
              location |-> file] >>
     ELSE <<>>)
    \o
    (IF /\ \E w \in CredentialWords : Includes(ToLower(content), w)
        /\ CountChars(content, {"\""}) >= 2
     THEN << [severity |-> "high",
              description |-> "Possible hardcoded credentials detected",
              location |-> file] >>
     ELSE <<>>)
    \o
    (IF Includes(content, <<"i", "n", "n", "e", "r", "H", "T", "M", "L">>)
     THEN << [severity |-> "medium",
              description |-> "Use of innerHTML can lead to XSS vulnerabilities",
              location |-> file] >>
     ELSE <<>>)

(***************************************************************************)
(* analyzePerformance                                                      *)
(***************************************************************************)
LineTerminators == {"\n", "\r"}

WhiteSpace == {" ", "\t", "\n", "\r"}

\* /p1.*p2/: p1, then any characters of the same line, then p2
MatchesDotStar(s, p1, p2) ==
    \E i \in 1..Len(s) : \E j \in (i + Len(p1))..Len(s) :
        /\ StartsWithAt(s, p1, i)
        /\ StartsWithAt(s, p2, j)
        /\ \A k \in (i + Len(p1))..(j - 1) : s[k] \notin LineTerminators

\* /\[\s*\.\.\..*\]/ matched at position i: the position of its last
\* character (.* is greedy), 0 when it does not match there
SpreadEndAt(s, i) ==
    IF i > Len(s) \/ s[i] # "[" THEN 0
    ELSE LET q == CHOOSE k \in (i + 1)..(Len(s) + 1) :
                      /\ k = Len(s) + 1 \/ s[k] \notin WhiteSpace
                      /\ \A m \in (i + 1)..(k - 1) : s[m] \in WhiteSpace
             ends == {k \in (q + 3)..Len(s) :
                         /\ s[k] = "]"
                         /\ \A m \in (q + 3)..(k - 1) : s[m] \notin LineTerminators}
         IN IF StartsWithAt(s, <<".", ".", ".">>, q) /\ ends # {}
            THEN MaxOf(ends) ELSE 0

\* the first position >= i where the spread pattern matches, 0 when none
NextSpread(s, i) ==
    LET hits == {j \in i..Len(s) : SpreadEndAt(s, j) > 0}
    IN IF hits = {} THEN 0 ELSE CHOOSE j \in hits : \A k \in hits : j <= k

RECURSIVE CountSpreadsFrom(_, _)
CountSpreadsFrom(s, i) ==
    IF NextSpread(s, i) = 0 THEN 0
    ELSE 1 + CountSpreadsFrom(s, SpreadEndAt(s, NextSpread(s, i)) + 1)

analyzePerformance(content) ==
    (IF MatchesDotStar(content, <<".", "f", "o", "r", "E", "a", "c", "h">>,
                       <<".", "m", "a", "p">>)
     THEN <<"Nested array operations detected - consider combining operations">>
     ELSE <<>>)
    \o
    (IF MatchesDotStar(content,
            <<"d", "o", "c", "u", "m", "e", "n", "t", ".", "q", "u", "e", "r", "y", "S", "e", "l", "e", "c", "t", "o", "r">>,
            <<"q", "u", "e", "r", "y", "S", "e", "l", "e", "c", "t", "o", "r">>)
     THEN <<"Multiple DOM queries - consider caching selectors">>
     ELSE <<>>)
    \o
    (IF \E w \in { <<"l", "o", "g">>, <<"d", "e", "b", "u", "g">>, <<"i", "n", "f", "o">> } :
            Includes(content, <<"c", "o", "n", "s", "o", "l", "e", ".">> \o w)
     THEN <<"Console statements found - remove in production">>
     ELSE <<>>)
    \o
    (IF CountSpreadsFrom(content, 1) > 2
     THEN <<"Multiple spread operations detected - may impact performance">>
     ELSE <<>>)

(***************************************************************************)
(* analyzeFiles                                                            *)
(***************************************************************************)
EmptyAnalysis ==
    [impactScore |-> 0, complexityScore |-> 0, securityIssues |-> <<>>,
     performanceImpact |-> [score |-> 0, details |-> <<>>]]

\* what one readable file contributes (computed once per path)
FileReport ==
    [p \in DOMAIN FileContents |->
        [impact |-> calculateImpactScore(FileContents[p]),
         complexity |-> calculateComplexityScore(FileContents[p]),
         security |-> analyzeSecurityIssues(FileContents[p], p),
         performance |-> analyzePerformance(FileContents[p])]]

\* mutant: the scores are assigned, not accumulated
AddFileAssign(acc, file) ==
    [impactScore |-> FileReport[file].impact,
     complexityScore |-> FileReport[file].complexity,
     securityIssues |-> acc.securityIssues \o FileReport[file].security,
     performanceImpact |->
        [score |-> Len(FileReport[file].performance),
         details |-> acc.performanceImpact.details \o FileReport[file].performance]]

\* the body of the try block for a file that was read
AddFileCapped(acc, file) ==
    [impactScore |-> Min(100, acc.impactScore + FileReport[file].impact),
     complexityScore |-> Min(100, acc.complexityScore + FileReport[file].complexity),
     securityIssues |-> acc.securityIssues \o FileReport[file].security,
     performanceImpact |->
        [score |-> Min(100, acc.performanceImpact.score + Len(FileReport[file].performance)),
         details |-> acc.performanceImpact.details \o FileReport[file].performance]]

AddFile(acc, file) ==
    [impactScore |-> acc.impactScore + FileReport[file].impact,
     complexityScore |-> acc.complexityScore + FileReport[file].complexity,
     securityIssues |-> acc.securityIssues \o FileReport[file].security,
     performanceImpact |->
        [score |-> acc.performanceImpact.score + Len(FileReport[file].performance),
         details |-> acc.performanceImpact.details \o FileReport[file].performance]]

\* one iteration of the for loop: the catch block leaves the record alone
LoopBody(acc, file) == IF Readable(file) THEN AddFile(acc, file) ELSE acc

\* mutant: the scores are returned as accumulated
NormalizeNone(acc) == acc

\* "Normalize scores"
Normalize(acc) ==
    [acc EXCEPT !.impactScore = Min(100, acc.impactScore),
                !.complexityScore = Min(100, acc.complexityScore),
                !.performanceImpact.score = Min(100, acc.performanceImpact.score)]

RECURSIVE Accumulate(_, _)
Accumulate(acc, fs) ==
    IF Len(fs) = 0 THEN acc ELSE Accumulate(LoopBody(acc, Head(fs)), Tail(fs))

\* the whole function on a list of paths
analyzeFiles(fs) == Normalize(Accumulate(EmptyAnalysis, fs))

RECURSIVE SeqsUpTo(_, _)
SeqsUpTo(S, n) ==
    IF n = 0 THEN {<<>>}
    ELSE SeqsUpTo(S, n - 1) \cup {Append(s, x) : s \in SeqsUpTo(S, n - 1), x \in S}

AnalysisIdle ==
    /\ files = <<>>
    /\ fileIdx = 0
    /\ analysis = EmptyAnalysis
    /\ errLog = <<>>
    /\ apc = "idle"

StartAnalysis ==
    /\ files \in SeqsUpTo(Paths, MaxFiles)
    /\ fileIdx = 0
    /\ analysis = EmptyAnalysis
    /\ errLog = <<>>
    /\ apc = "loop"

AnalyzeFileOk ==
    /\ apc = "loop"
    /\ fileIdx < Len(files)
    /\ Readable(files[fileIdx + 1])
    /\ analysis' = AddFile(analysis, files[fileIdx + 1])
    /\ fileIdx' = fileIdx + 1
    /\ UNCHANGED <<files, errLog, apc>>
    /\ UNCHANGED <<logVars, diffVars, blameVars, statusVars, porcelainVars, messageVars, sessionVars, entryVars, updateVars, rollbackVars>>

\* mutant: the read error escapes the loop and ends the analysis
AnalyzeFileErrorAbort ==
    /\ apc = "loop"
    /\ fileIdx < Len(files)
    /\ ~Readable(files[fileIdx + 1])
    /\ errLog' = Append(errLog, files[fileIdx + 1])
    /\ fileIdx' = Len(files)
    /\ UNCHANGED <<files, analysis, apc>>
    /\ UNCHANGED <<logVars, diffVars, blameVars, statusVars, porcelainVars, messageVars, sessionVars, entryVars, updateVars, rollbackVars>>

AnalyzeFileError ==
    /\ apc = "loop"
    /\ fileIdx < Len(files)
    /\ ~Readable(files[fileIdx + 1])
    /\ errLog' = Append(errLog, files[fileIdx + 1])
    /\ fileIdx' = fileIdx + 1
    /\ UNCHANGED <<files, analysis, apc>>
    /\ UNCHANGED <<logVars, diffVars, blameVars, statusVars, porcelainVars, messageVars, sessionVars, entryVars, updateVars, rollbackVars>>

NormalizeScores ==
    /\ apc = "loop"
    /\ fileIdx = Len(files)
    /\ analysis' = Normalize(analysis)
    /\ apc' = "done"
    /\ UNCHANGED <<files, fileIdx, errLog>>
    /\ UNCHANGED <<logVars, diffVars, blameVars, statusVars, porcelainVars, messageVars, sessionVars, entryVars, updateVars, rollbackVars>>

(***************************************************************************)
(* The log text.  getCommitHistory runs                                    *)
(*   git log -n <limit> --pretty=format:"%H|%an|%ad|%s" --stat             *)
(* A record is a header line and, when the commit touched files, its stat  *)
(* block, ending in the summary line.  Layout "git" is what git prints:    *)
(* the stat block starts on the line after the header and a blank line     *)
(* follows the summary.  "bare" keeps only the summary line after the      *)
(* header; "blank" puts a blank line between the header and the stat       *)
(* block.                                                                  *)
(***************************************************************************)
MaxCommits == 2

None == -1

Hashes == << <<"c", "1", "a">>, <<"c", "2", "b">>, <<"c", "3", "c">>, <<"c", "4", "d">> >>

AuthorName == <<"A", "l">>

DateText == <<"F", "r", "i", " ", "J", "a", "n", " ", "2", " ", "0", "0", ":", "0", "0", ":", "0", "0", " ", "1", "9", "7", "0", " ", "+", "0", "0", "0", "0">>

KnownDates == (DateText :> 86400000)

Subject == <<"o", "n", "e">>

NoStat == [has |-> FALSE, files |-> 0, ins |-> None, del |-> None]

StatChoices ==
    {NoStat} \cup
    {[has |-> TRUE, files |-> f, ins |-> a, del |-> d] :
        f \in {1, 12}, a \in {None, 1, 3}, d \in {None, 10}}

Layouts == {"git", "bare", "blank"}

HeaderLine(hash) ==
    hash \o <<"|">> \o AuthorName \o <<"|">> \o DateText \o <<"|">> \o Subject

Plural(n) == IF n = 1 THEN <<>> ELSE <<"s">>

\* " N file(s) changed[, A insertion(s)(+)][, D deletion(s)(-)]"
SummaryLine(st) ==
    <<" ">> \o NatToDigits(st.files) \o <<" ", "f", "i", "l", "e">> \o Plural(st.files) \o <<" ", "c", "h", "a", "n", "g", "e", "d">>
    \o (IF st.ins = None THEN <<>>
        ELSE <<",", " ">> \o NatToDigits(st.ins) \o <<" ", "i", "n", "s", "e", "r", "t", "i", "o", "n">> \o Plural(st.ins) \o <<"(", "+", ")">>)
    \o (IF st.del = None THEN <<>>
        ELSE <<",", " ">> \o NatToDigits(st.del) \o <<" ", "d", "e", "l", "e", "t", "i", "o", "n">> \o Plural(st.del) \o <<"(", "-", ")">>)

FileStatLine == <<" ", "a", ".", "t", "x", "t", " ", "|", " ", "2", " ", "+", "-">>

\* the block of the i-th record: its header line and what follows it
Block(st, layout, i) ==
    HeaderLine(Hashes[i]) \o
    (IF ~st.has THEN <<>>
     ELSE IF layout = "git" THEN <<"\n">> \o FileStatLine \o <<"\n">> \o SummaryLine(st)
     ELSE IF layout = "bare" THEN <<"\n">> \o SummaryLine(st)
     ELSE <<"\n", "\n">> \o FileStatLine \o <<"\n">> \o SummaryLine(st))

\* the text of the whole log: a record with a stat block is followed by a
\* blank line, a header-only record by a line break
RECURSIVE LogTextFrom(_, _, _)
LogTextFrom(recs, layout, i) ==
    IF i > Len(recs) THEN <<>>
    ELSE Block(recs[i], layout, i)
         \o (IF i = Len(recs) THEN <<>>
             ELSE IF recs[i].has THEN <<"\n", "\n">> ELSE <<"\n">>)
         \o LogTextFrom(recs, layout, i + 1)

LogText(recs, layout) == LogTextFrom(recs, layout, 1)

(***************************************************************************)
(* parseGitStats, parseGitLogEntry (utils/gitParser) and parseGitLog       *)
(***************************************************************************)
\* /(\d+) files? changed/ matched at i: the index after the match, 0 if none
FilesChangedEnd(s, i) ==
    IF i > Len(s) \/ ~IsDigit(s[i]) THEN 0
    ELSE After(s, AfterOpt(s, After(s, DigitsEnd(s, i), <<" ", "f", "i", "l", "e">>), <<"s">>), <<" ", "c", "h", "a", "n", "g", "e", "d">>)

\* (?:, (\d+) <word>s?<sign>)? tried at i: [end, group]; end = i when absent
OptionalCount(s, i, word, sign) ==
    LET d == After(s, i, <<",", " ">>)
        e == IF d > 0 THEN DigitsEnd(s, d) ELSE 0
        z == IF e > d THEN After(s, AfterOpt(s, After(s, e, word), <<"s">>), sign) ELSE 0
    IN IF z > 0 THEN [end |-> z, group |-> SubSeq(s, d, e - 1)]
       ELSE [end |-> i, group |-> Undefined]

\* summary.match(...): the leftmost match and its three groups
MatchSummary(s) ==
    LET starts == {i \in 1..Len(s) : FilesChangedEnd(s, i) > 0}
    IN IF starts = {} THEN [matched |-> FALSE, g1 |-> Undefined, g2 |-> Undefined, g3 |-> Undefined]
       ELSE LET i == CHOOSE k \in starts : \A m \in starts : k <= m
                ins == OptionalCount(s, FilesChangedEnd(s, i), <<" ", "i", "n", "s", "e", "r", "t", "i", "o", "n">>, <<"(", "+", ")">>)
                del == OptionalCount(s, ins.end, <<" ", "d", "e", "l", "e", "t", "i", "o", "n">>, <<"(", "-", ")">>)
            IN [matched |-> TRUE, g1 |-> SubSeq(s, i, DigitsEnd(s, i) - 1),
                g2 |-> ins.group, g3 |-> del.group]

\* matches[k] || '0'
OrZeroText(g) == IF g = Undefined \/ g = <<>> THEN <<"0">> ELSE g

ZeroStats == [additions |-> 0, deletions |-> 0, files |-> 0]

parseGitStats(statsText) ==
    IF statsText = Undefined \/ statsText = <<>> THEN ZeroStats
    ELSE LET lines == Split(statsText, <<"\n">>)
             m == MatchSummary(lines[Len(lines)])
         IN IF ~m.matched THEN ZeroStats
            ELSE [files |-> ParseInt(OrZeroText(m.g1)).n,
                  additions |-> ParseInt(OrZeroText(m.g2)).n,
                  deletions |-> ParseInt(OrZeroText(m.g3)).n]

\* pieces[k] of a destructuring assignment: undefined past the end
Piece(pieces, k) == IF k <= Len(pieces) THEN pieces[k] ELSE Undefined

\* new Date(dateStr)
ParseDate(text) ==
    IF text # Undefined /\ text \in DOMAIN KnownDates
    THEN DateOf(KnownDates[text]) ELSE InvalidDate

parseGitLogEntry(logEntry) ==
    LET parts == Split(logEntry, <<"\n", "\n">>)
        fields == Split(Piece(parts, 1), <<"|">>)
    IN [hash |-> Piece(fields, 1),
        author |-> Piece(fields, 2),
        date |-> ParseDate(Piece(fields, 3)),
        message |-> Piece(fields, 4),
        stats |-> parseGitStats(Piece(parts, 2))]

parseGitLog(log) ==
    LET entries == SelectSeq(Split(log, <<"\n", "c", "o", "m", "m", "i", "t", " ">>), LAMBDA e : e # <<>>)
    IN [i \in 1..Len(entries) |-> parseGitLogEntry(entries[i])]

EmptyCommit ==
    [hash |-> <<>>, author |-> <<>>, date |-> InvalidDate, message |-> <<>>,
     stats |-> ZeroStats]

LogIdle ==
    /\ logRecords = <<>>
    /\ logLayout = "git"
    /\ entryIdx = 0
    /\ commit = EmptyCommit
    /\ commits = <<>>
    /\ lpc = "idle"

StartLog ==
    /\ logRecords \in SeqsUpTo(StatChoices, MaxCommits)
    /\ logLayout \in Layouts
    /\ entryIdx = 0
    /\ commit = EmptyCommit
    /\ commits = <<>>
    /\ lpc = "start"

\* parseGitLogEntry called on the block of one record
ParseGitLogEntryCall ==
    /\ lpc = "start"
    /\ \E i \in 1..Len(logRecords) :
          /\ entryIdx' = i
          /\ commit' = parseGitLogEntry(Block(logRecords[i], logLayout, i))
    /\ lpc' = "entry"
    /\ UNCHANGED <<logRecords, logLayout, commits>>
    /\ UNCHANGED <<analysisVars, diffVars, blameVars, statusVars, porcelainVars, messageVars, sessionVars, entryVars, updateVars, rollbackVars>>

\* getCommitHistory: parseGitLog called on the text git printed
ParseGitLogCall ==
    /\ lpc = "start"
    /\ commits' = parseGitLog(LogText(logRecords, logLayout))
    /\ lpc' = "log"
    /\ UNCHANGED <<logRecords, logLayout, entryIdx, commit>>
    /\ UNCHANGED <<analysisVars, diffVars, blameVars, statusVars, porcelainVars, messageVars, sessionVars, entryVars, updateVars, rollbackVars>>

(***************************************************************************)
(* The diff text.  getFileDiff runs git show / git diff and hands stdout   *)
(* to parseDiff.  A diff is a sequence of lines, each ended by a line      *)
(* break; a line is a hunk header, a header of a combined (merge) diff,    *)
(* a body line of a hunk, or a file-level marker line.                     *)
(***************************************************************************)
MaxDiffLines == 4

\* "@@ -a[,b] +c[,d] @@": a count of None is left out, as git does for 1
HunkHeaderText(a, b, c, d) ==
    <<"@", "@", " ", "-">> \o NatToDigits(a)
    \o (IF b = None THEN <<>> ELSE <<",">> \o NatToDigits(b))
    \o <<" ", "+">> \o NatToDigits(c)
    \o (IF d = None THEN <<>> ELSE <<",">> \o NatToDigits(d))
    \o <<" ", "@", "@">>

Header(a, b, c, d) ==
    [kind |-> "header", text |-> HunkHeaderText(a, b, c, d), a |-> a, b |-> b, c |-> c, d |-> d]

OtherLine(kind, text) == [kind |-> kind, text |-> text, a |-> 0, b |-> 0, c |-> 0, d |-> 0]

\* the lines a diff is made of; a diff is a sequence of indices into this table
DiffLineTable ==
    << Header(1, 3, 1, 4),
       Header(12, 0, 10, 25),
       Header(7, None, 8, None),
       OtherLine("combined", <<"@", "@", "@", " ", "-", "1", " ", "-", "1", " ", "+", "1", " ", "@", "@", "@">>),
       OtherLine("body", <<" ", "l", "i", "n", "e">>),
       OtherLine("body", <<"+", "a", "d", "d", "e", "d">>),
       OtherLine("body", <<"-", "r", "e", "m", "o", "v", "e", "d">>),
       OtherLine("marker", <<"-", "-", "-", " ", "a", "/", "y">>) >>

DiffLineChoices == 1..Len(DiffLineTable)

\* stdout: every line ended by a line break
DiffText(input) ==
    IF Len(input) = 0 THEN <<>>
    ELSE Join([i \in 1..Len(input) |-> DiffLineTable[input[i]].text], <<"\n">>) \o <<"\n">>

(***************************************************************************)
(* parseDiff                                                               *)
(***************************************************************************)
\* /@@ -(\d+),?(\d+)? \+(\d+),?(\d+)? @@/ tried at position i of the line:
\* the ends of the four digit groups, ok = FALSE when it does not match
HunkPatternAt(s, i) ==
    LET s1 == After(s, i, <<"@", "@", " ", "-">>)
        e1 == IF s1 > 0 THEN DigitsEnd(s, s1) ELSE 0
        s2 == IF e1 > s1 THEN AfterOpt(s, e1, <<",">>) ELSE 0
        e2 == IF s2 > 0 THEN DigitsEnd(s, s2) ELSE 0
        s3 == After(s, e2, <<" ", "+">>)
        e3 == IF s3 > 0 THEN DigitsEnd(s, s3) ELSE 0
        s4 == IF e3 > s3 THEN AfterOpt(s, e3, <<",">>) ELSE 0
        e4 == IF s4 > 0 THEN DigitsEnd(s, s4) ELSE 0
    IN [ok |-> After(s, e4, <<" ", "@", "@">>) > 0,
        g1 |-> IF e1 > s1 THEN SubSeq(s, s1, e1 - 1) ELSE Undefined,
        g2 |-> IF e2 > s2 /\ s2 > 0 THEN SubSeq(s, s2, e2 - 1) ELSE Undefined,
        g3 |-> IF e3 > s3 THEN SubSeq(s, s3, e3 - 1) ELSE Undefined,
        g4 |-> IF e4 > s4 /\ s4 > 0 THEN SubSeq(s, s4, e4 - 1) ELSE Undefined]

\* line.match(...): the leftmost match anywhere in the line
HunkMatch(line) ==
    LET hits == {i \in 1..Len(line) : HunkPatternAt(line, i).ok}
    IN IF hits = {} THEN [ok |-> FALSE, g1 |-> Undefined, g2 |-> Undefined,
                          g3 |-> Undefined, g4 |-> Undefined]
       ELSE HunkPatternAt(line, CHOOSE i \in hits : \A k \in hits : i <= k)

\* mutant: the counts are read from the start groups
NewHunkStartsOnly(line) ==
    LET m == HunkMatch(line)
    IN [oldStart |-> ParseInt(m.g1).n,
        oldLines |-> OrZero(ParseInt(m.g1)),
        newStart |-> ParseInt(m.g3).n,
        newLines |-> OrZero(ParseInt(m.g3)),
        content |-> line \o <<"\n">>]

\* the object built for a matching header line
NewHunk(line) ==
    LET m == HunkMatch(line)
    IN [oldStart |-> ParseInt(m.g1).n,
        oldLines |-> OrZero(ParseInt(m.g2)),
        newStart |-> ParseInt(m.g3).n,
        newLines |-> OrZero(ParseInt(m.g4)),
        content |-> line \o <<"\n">>]

\* the line the for-loop is at
CurrentLine == diffLines[diffIdx + 1]

\* if (currentHunk) hunks.push(currentHunk)
PushCurrent == IF currentHunk # 0 THEN Append(hunks, currentHunk) ELSE hunks

\* if (line.startsWith('+')) additions++; if (line.startsWith('-')) deletions++
Counts(line) ==
    [add |-> IF StartsWith(line, <<"+">>) THEN 1 ELSE 0,
     del |-> IF StartsWith(line, <<"-">>) THEN 1 ELSE 0]

DiffIdle ==
    /\ diffInput = <<>>
    /\ filePath = "a.txt"
    /\ diffLines = Split(DiffText(diffInput), <<"\n">>)
    /\ diffIdx = 0
    /\ hunkHeap = <<>>
    /\ currentHunk = 0
    /\ hunks = <<>>
    /\ additions = 0
    /\ deletions = 0
    /\ dpc = "idle"

StartDiff ==
    /\ diffInput \in SeqsUpTo(DiffLineChoices, MaxDiffLines)
    /\ filePath = "a.txt"
    /\ diffLines = Split(DiffText(diffInput), <<"\n">>)
    /\ diffIdx = 0
    /\ hunkHeap = <<>>
    /\ currentHunk = 0
    /\ hunks = <<>>
    /\ additions = 0
    /\ deletions = 0
    /\ dpc = "loop"

\* a line starting with '@@' that matches the pattern: the open hunk is
\* pushed and a new object becomes the current hunk
DiffHunkHeader ==
    /\ dpc = "loop"
    /\ diffIdx < Len(diffLines)
    /\ StartsWith(CurrentLine, <<"@", "@">>)
    /\ HunkMatch(CurrentLine).ok
    /\ hunks' = PushCurrent
    /\ hunkHeap' = Append(hunkHeap, NewHunk(CurrentLine))
    /\ currentHunk' = Len(hunkHeap) + 1
    /\ diffIdx' = diffIdx + 1
    /\ UNCHANGED <<diffInput, filePath, diffLines, additions, deletions, dpc>>
    /\ UNCHANGED <<analysisVars, logVars, blameVars, statusVars, porcelainVars, messageVars, sessionVars, entryVars, updateVars, rollbackVars>>

\* a line starting with '@@' that does not match: the open hunk is pushed
\* and stays the current hunk
DiffUnmatchedHeader ==
    /\ dpc = "loop"
    /\ diffIdx < Len(diffLines)
    /\ StartsWith(CurrentLine, <<"@", "@">>)
    /\ ~HunkMatch(CurrentLine).ok
    /\ hunks' = PushCurrent
    /\ diffIdx' = diffIdx + 1
    /\ UNCHANGED <<diffInput, filePath, diffLines, hunkHeap, currentHunk, additions, deletions, dpc>>
    /\ UNCHANGED <<analysisVars, logVars, blameVars, statusVars, porcelainVars, messageVars, sessionVars, entryVars, updateVars, rollbackVars>>

\* any other line while a hunk is open: appended to the hunk and counted
DiffHunkLine ==
    /\ dpc = "loop"
    /\ diffIdx < Len(diffLines)
    /\ ~StartsWith(CurrentLine, <<"@", "@">>)
    /\ currentHunk # 0
    /\ hunkHeap' = [hunkHeap EXCEPT ![currentHunk].content = @ \o CurrentLine \o <<"\n">>]
    /\ additions' = additions + Counts(CurrentLine).add
    /\ deletions' = deletions + Counts(CurrentLine).del
    /\ diffIdx' = diffIdx + 1
    /\ UNCHANGED <<diffInput, filePath, diffLines, currentHunk, hunks, dpc>>
    /\ UNCHANGED <<analysisVars, logVars, blameVars, statusVars, porcelainVars, messageVars, sessionVars, entryVars, updateVars, rollbackVars>>

\* any other line before the first hunk: ignored
DiffSkipLine ==
    /\ dpc = "loop"
    /\ diffIdx < Len(diffLines)
    /\ ~StartsWith(CurrentLine, <<"@", "@">>)
    /\ currentHunk = 0
    /\ diffIdx' = diffIdx + 1
    /\ UNCHANGED <<diffInput, filePath, diffLines, hunkHeap, currentHunk, hunks, additions, deletions, dpc>>
    /\ UNCHANGED <<analysisVars, logVars, blameVars, statusVars, porcelainVars, messageVars, sessionVars, entryVars, updateVars, rollbackVars>>

\* mutant: the hunk still open at the end of the input is not pushed
DiffFinishNoFlush ==
    /\ dpc = "loop"
    /\ diffIdx = Len(diffLines)
    /\ hunks' = hunks
    /\ dpc' = "done"
    /\ UNCHANGED <<diffInput, filePath, diffLines, diffIdx, hunkHeap, currentHunk, additions, deletions>>
    /\ UNCHANGED <<analysisVars, logVars, blameVars, statusVars, porcelainVars, messageVars, sessionVars, entryVars, updateVars, rollbackVars>>

\* after the loop: the open hunk is pushed and the GitDiff returned
DiffFinish ==
    /\ dpc = "loop"
    /\ diffIdx = Len(diffLines)
    /\ hunks' = PushCurrent
    /\ dpc' = "done"
    /\ UNCHANGED <<diffInput, filePath, diffLines, diffIdx, hunkHeap, currentHunk, additions, deletions>>
    /\ UNCHANGED <<analysisVars, logVars, blameVars, statusVars, porcelainVars, messageVars, sessionVars, entryVars, updateVars, rollbackVars>>

\* the GitDiff the caller holds: the hunks array with its objects
ReturnedDiff ==
    [path |-> filePath, additions |-> additions, deletions |-> deletions,
     hunks |-> [i \in 1..Len(hunks) |-> hunkHeap[hunks[i]]]]

(***************************************************************************)
(* The blame text.  getFileBlame runs git blame --line-porcelain, which    *)
(* prints one block per line of the file: the line "<sha> <orig> <final>   *)
(* <count>", then "author <name>", "author-time <seconds>" and further     *)
(* metadata, then the line itself after a tab.  A block of the model holds *)
(* its content line and any of: a commit-hash line, printed as git does    *)
(* ("porcelain") or as "hash <sha>" ("keyword"), the author line, the      *)
(* author-time line.  The values of the i-th block depend on i.            *)
(***************************************************************************)
MaxBlocks == 2

Authors == << <<"A", "l">>, <<"B", "o">>, <<"C", "y">>, <<"D", "i">> >>

AuthorTime(i) == 100 * i

ContentOf(i) == <<"x">> \o NatToDigits(i)

BlockChoices ==
    [hashLine : {"none", "porcelain", "keyword"}, author : BOOLEAN, time : BOOLEAN]

BlockLines(b, i) ==
    (IF b.hashLine = "porcelain"
     THEN << Hashes[i] \o <<" ">> \o NatToDigits(i) \o <<" ">> \o NatToDigits(i) \o <<" ", "1">> >>
     ELSE IF b.hashLine = "keyword" THEN << <<"h", "a", "s", "h", " ">> \o Hashes[i] >>
     ELSE <<>>)
    \o (IF b.author THEN << <<"a", "u", "t", "h", "o", "r", " ">> \o Authors[i] >> ELSE <<>>)
    \o (IF b.time THEN << <<"a", "u", "t", "h", "o", "r", "-", "t", "i", "m", "e", " ">> \o NatToDigits(AuthorTime(i)) >> ELSE <<>>)
    \o << <<"\t">> \o ContentOf(i) >>

\* stdout: the lines of every block, each ended by a line break
RECURSIVE BlameTextFrom(_, _)
BlameTextFrom(input, i) ==
    IF i > Len(input) THEN <<>>
    ELSE Join(BlockLines(input[i], i), <<"\n">>) \o <<"\n">> \o BlameTextFrom(input, i + 1)

BlameText(input) == BlameTextFrom(input, 1)

(***************************************************************************)
(* parseBlame                                                              *)
(***************************************************************************)
\* a Date field that was never assigned
UndefinedDate == [valid |-> FALSE, ms |-> -1]

\* current = {}
EmptyPartial ==
    [hash |-> Undefined, author |-> Undefined, date |-> UndefinedDate, content |-> Undefined]

\* truthiness of a string field: assigned and not empty
Truthy(text) == text # Undefined /\ text # <<>>

\* if (current.hash && current.author && current.date): a Date is truthy
Complete(cur) == Truthy(cur.hash) /\ Truthy(cur.author) /\ cur.date # UndefinedDate

\* new Date(parseInt(text, 10) * 1000)
DateFromSeconds(text) ==
    IF ParseInt(text).nan THEN InvalidDate ELSE DateOf(ParseInt(text).n * 1000)

CurrentBlameLine == blameLines[blameIdx + 1]

BlameIdle ==
    /\ blameInput = <<>>
    /\ blameLines = <<>>
    /\ blameIdx = 0
    /\ current = EmptyPartial
    /\ results = <<>>
    /\ bpc = "idle"

StartBlame ==
    /\ blameInput \in SeqsUpTo(BlockChoices, MaxBlocks)
    /\ blameLines = Split(BlameText(blameInput), <<"\n">>)
    /\ blameIdx = 0
    /\ current = EmptyPartial
    /\ results = <<>>
    /\ bpc = "loop"

BlameAuthorLine ==
    /\ bpc = "loop"
    /\ blameIdx < Len(blameLines)
    /\ StartsWith(CurrentBlameLine, <<"a", "u", "t", "h", "o", "r", " ">>)
    /\ current' = [current EXCEPT !.author = Substring(CurrentBlameLine, 7)]
    /\ blameIdx' = blameIdx + 1
    /\ UNCHANGED <<blameInput, blameLines, results, bpc>>
    /\ UNCHANGED <<analysisVars, logVars, diffVars, statusVars, porcelainVars, messageVars, sessionVars, entryVars, updateVars, rollbackVars>>

BlameAuthorTimeLine ==
    /\ bpc = "loop"
    /\ blameIdx < Len(blameLines)
    /\ ~StartsWith(CurrentBlameLine, <<"a", "u", "t", "h", "o", "r", " ">>)
    /\ StartsWith(CurrentBlameLine, <<"a", "u", "t", "h", "o", "r", "-", "t", "i", "m", "e", " ">>)
    /\ current' = [current EXCEPT !.date = DateFromSeconds(Substring(CurrentBlameLine, 12))]
    /\ blameIdx' = blameIdx + 1
    /\ UNCHANGED <<blameInput, blameLines, results, bpc>>
    /\ UNCHANGED <<analysisVars, logVars, diffVars, statusVars, porcelainVars, messageVars, sessionVars, entryVars, updateVars, rollbackVars>>

BlameHashLine ==
    /\ bpc = "loop"
    /\ blameIdx < Len(blameLines)
    /\ ~StartsWith(CurrentBlameLine, <<"a", "u", "t", "h", "o", "r", " ">>)
    /\ ~StartsWith(CurrentBlameLine, <<"a", "u", "t", "h", "o", "r", "-", "t", "i", "m", "e", " ">>)
    /\ StartsWith(CurrentBlameLine, <<"h", "a", "s", "h", " ">>)
    /\ current' = [current EXCEPT !.hash = Substring(CurrentBlameLine, 5)]
    /\ blameIdx' = blameIdx + 1
    /\ UNCHANGED <<blameInput, blameLines, results, bpc>>
    /\ UNCHANGED <<analysisVars, logVars, diffVars, statusVars, porcelainVars, messageVars, sessionVars, entryVars, updateVars, rollbackVars>>

\* mutant: the partial record is kept after a content line
BlameContentLineNoReset ==
    /\ bpc = "loop"
    /\ blameIdx < Len(blameLines)
    /\ ~StartsWith(CurrentBlameLine, <<"a", "u", "t", "h", "o", "r", " ">>)
    /\ ~StartsWith(CurrentBlameLine, <<"a", "u", "t", "h", "o", "r", "-", "t", "i", "m", "e", " ">>)
    /\ ~StartsWith(CurrentBlameLine, <<"h", "a", "s", "h", " ">>)
    /\ StartsWith(CurrentBlameLine, <<"\t">>)
    /\ results' =
          IF Complete(current)
          THEN Append(results,
                      [hash |-> current.hash, author |-> current.author,
                       date |-> current.date, content |-> Substring(CurrentBlameLine, 1),
                       line |-> Len(results) + 1])
          ELSE results
    /\ current' = [current EXCEPT !.content = Substring(CurrentBlameLine, 1)]
    /\ blameIdx' = blameIdx + 1
    /\ UNCHANGED <<blameInput, blameLines, bpc>>
    /\ UNCHANGED <<analysisVars, logVars, diffVars, statusVars, porcelainVars, messageVars, sessionVars, entryVars, updateVars, rollbackVars>>

\* mutant: the line number is the number of the content line in the input
BlameContentLineSourceNumber ==
    /\ bpc = "loop"
    /\ blameIdx < Len(blameLines)
    /\ ~StartsWith(CurrentBlameLine, <<"a", "u", "t", "h", "o", "r", " ">>)
    /\ ~StartsWith(CurrentBlameLine, <<"a", "u", "t", "h", "o", "r", "-", "t", "i", "m", "e", " ">>)
    /\ ~StartsWith(CurrentBlameLine, <<"h", "a", "s", "h", " ">>)
    /\ StartsWith(CurrentBlameLine, <<"\t">>)
    /\ results' =
          IF Complete(current)
          THEN Append(results,
                      [hash |-> current.hash, author |-> current.author,
                       date |-> current.date, content |-> Substring(CurrentBlameLine, 1),
                       line |-> Cardinality({i \in 1..(blameIdx + 1) :
                                                StartsWith(blameLines[i], <<"\t">>)})])
          ELSE results
    /\ current' = EmptyPartial
    /\ blameIdx' = blameIdx + 1
    /\ UNCHANGED <<blameInput, blameLines, bpc>>
    /\ UNCHANGED <<analysisVars, logVars, diffVars, statusVars, porcelainVars, messageVars, sessionVars, entryVars, updateVars, rollbackVars>>

\* the tab-prefixed content line: emit when complete, then current = {}
BlameContentLine ==
    /\ bpc = "loop"
    /\ blameIdx < Len(blameLines)
    /\ ~StartsWith(CurrentBlameLine, <<"a", "u", "t", "h", "o", "r", " ">>)
    /\ ~StartsWith(CurrentBlameLine, <<"a", "u", "t", "h", "o", "r", "-", "t", "i", "m", "e", " ">>)
    /\ ~StartsWith(CurrentBlameLine, <<"h", "a", "s", "h", " ">>)
    /\ StartsWith(CurrentBlameLine, <<"\t">>)
    /\ results' =
          IF Complete(current)
          THEN Append(results,
                      [hash |-> current.hash, author |-> current.author,
                       date |-> current.date, content |-> Substring(CurrentBlameLine, 1),
                       line |-> Len(results) + 1])
          ELSE results
    /\ current' = EmptyPartial
    /\ blameIdx' = blameIdx + 1
    /\ UNCHANGED <<blameInput, blameLines, bpc>>
    /\ UNCHANGED <<analysisVars, logVars, diffVars, statusVars, porcelainVars, messageVars, sessionVars, entryVars, updateVars, rollbackVars>>

\* a line none of the four tests matches
BlameOtherLine ==
    /\ bpc = "loop"
    /\ blameIdx < Len(blameLines)
    /\ ~StartsWith(CurrentBlameLine, <<"a", "u", "t", "h", "o", "r", " ">>)
    /\ ~StartsWith(CurrentBlameLine, <<"a", "u", "t", "h", "o", "r", "-", "t", "i", "m", "e", " ">>)
    /\ ~StartsWith(CurrentBlameLine, <<"h", "a", "s", "h", " ">>)
    /\ ~StartsWith(CurrentBlameLine, <<"\t">>)
    /\ blameIdx' = blameIdx + 1
    /\ UNCHANGED <<blameInput, blameLines, current, results, bpc>>
    /\ UNCHANGED <<analysisVars, logVars, diffVars, statusVars, porcelainVars, messageVars, sessionVars, entryVars, updateVars, rollbackVars>>

\* return results
BlameFinish ==
    /\ bpc = "loop"
    /\ blameIdx = Len(blameLines)
    /\ bpc' = "done"
    /\ UNCHANGED <<blameInput, blameLines, blameIdx, current, results>>
    /\ UNCHANGED <<analysisVars, logVars, diffVars, statusVars, porcelainVars, messageVars, sessionVars, entryVars, updateVars, rollbackVars>>

(***************************************************************************)
(* The status line: optional leading white space, a status token, then     *)
(* path tokens, each after a separator, and optional trailing white space. *)
(***************************************************************************)
MaxPaths == 2

StatusTokens == { <<"R">>, <<"M">>, <<"A">>, <<"D">>, <<"R", "1", "0", "0">>, <<>> }

PathTokens == { <<"a", ".", "t", "s">>, <<"b", ".", "t", "s">>, <<"-", ">">> }

Separators == { <<" ">>, <<"\t", " ">> }

Margins == { <<>>, <<" ">> }

StatusInputs ==
    [lead : Margins, status : StatusTokens, sep : Separators,
     paths : SeqsUpTo(PathTokens, MaxPaths), trail : Margins]

RECURSIVE PathsText(_, _, _)
PathsText(paths, sep, i) ==
    IF i > Len(paths) THEN <<>> ELSE sep \o paths[i] \o PathsText(paths, sep, i + 1)

StatusLineOf(in) == in.lead \o in.status \o PathsText(in.paths, in.sep, 1) \o in.trail

(***************************************************************************)
(* parseFileStatus                                                         *)
(***************************************************************************)
RECURSIVE TrimStart(_)
TrimStart(s) ==
    IF s # <<>> /\ Head(s) \in WhiteSpace THEN TrimStart(Tail(s)) ELSE s

RECURSIVE TrimEnd(_)
TrimEnd(s) ==
    IF s # <<>> /\ s[Len(s)] \in WhiteSpace THEN TrimEnd(SubSeq(s, 1, Len(s) - 1)) ELSE s

\* String.prototype.trim
Trim(s) == TrimEnd(TrimStart(s))

\* the first index >= i of s that holds white space, or Len(s) + 1
RECURSIVE NextWhiteSpace(_, _)
NextWhiteSpace(s, i) ==
    IF i > Len(s) \/ s[i] \in WhiteSpace THEN i ELSE NextWhiteSpace(s, i + 1)

\* the first index >= i of s that holds no white space, or Len(s) + 1
RECURSIVE NextInk(_, _)
NextInk(s, i) ==
    IF i > Len(s) \/ s[i] \notin WhiteSpace THEN i ELSE NextInk(s, i + 1)

\* s.split(/\s+/) from the index start on
RECURSIVE SplitWhiteSpaceFrom(_, _)
SplitWhiteSpaceFrom(s, start) ==
    LET at == NextWhiteSpace(s, start) IN
    IF at > Len(s) THEN << SubSeq(s, start, Len(s)) >>
    ELSE << SubSeq(s, start, at - 1) >> \o SplitWhiteSpaceFrom(s, NextInk(s, at))

SplitWhiteSpace(s) == SplitWhiteSpaceFrom(s, 1)

\* statusMap[status] || 'modified'
mapGitStatus(status) ==
    IF status = <<"A">> THEN "added"
    ELSE IF status = <<"M">> THEN "modified"
    ELSE IF status = <<"D">> THEN "deleted"
    ELSE IF status = <<"R">> THEN "renamed"
    ELSE "modified"

Null == [null |-> TRUE]

\* mutant: the path is the first token after the status
parseFileStatusFirstPath(line) ==
    LET tokens == SplitWhiteSpace(Trim(line))
        status == Head(tokens)
        paths == Tail(tokens)
    IN  IF status = <<>> \/ Len(paths) = 0 THEN Null
        ELSE [path |-> paths[1],
              status |-> mapGitStatus(status),
              additions |-> 0,
              deletions |-> 0,
              oldPath |-> IF status = <<"R">> /\ Len(paths) > 1 THEN paths[1] ELSE Undefined]

parseFileStatus(line) ==
    LET tokens == SplitWhiteSpace(Trim(line))
        status == Head(tokens)
        paths == Tail(tokens)
    IN  IF status = <<>> \/ Len(paths) = 0 THEN Null
        ELSE [path |-> paths[Len(paths)],
              status |-> mapGitStatus(status),
              additions |-> 0,
              deletions |-> 0,
              oldPath |-> IF status = <<"R">> /\ Len(paths) > 1 THEN paths[1] ELSE Undefined]

StatusIdle ==
    /\ statusInput = Null
    /\ statusLine = <<>>
    /\ fileChange = Null
    /\ spc = "idle"

StartStatus ==
    /\ statusInput \in StatusInputs
    /\ statusLine = StatusLineOf(statusInput)
    /\ fileChange = Null
    /\ spc = "call"

\* if (!status || !paths.length) return null
ParseFileStatusNull ==
    /\ spc = "call"
    /\ parseFileStatus(statusLine) = Null
    /\ fileChange' = Null
    /\ spc' = "done"
    /\ UNCHANGED <<statusInput, statusLine>>
    /\ UNCHANGED <<analysisVars, logVars, diffVars, blameVars, porcelainVars, messageVars, sessionVars, entryVars, updateVars, rollbackVars>>

\* return change
ParseFileStatusChange ==
    /\ spc = "call"
    /\ parseFileStatus(statusLine) # Null
    /\ fileChange' = parseFileStatus(statusLine)
    /\ spc' = "done"
    /\ UNCHANGED <<statusInput, statusLine>>
    /\ UNCHANGED <<analysisVars, logVars, diffVars, blameVars, porcelainVars, messageVars, sessionVars, entryVars, updateVars, rollbackVars>>

(***************************************************************************)
(* The output of git status --porcelain: one line per changed path, two    *)
(* status letters, a space and the path; a rename prints "old -> new".     *)
(***************************************************************************)
MaxStatusLines == 2

PlainCodes == { <<" ", "M">>, <<"M", " ">>, <<"A", " ">>, <<"D", " ">>, <<"?", "?">> }

RenameCodes == { <<"R", " ">>, <<"R", "M">> }

PorcelainEntries ==
    [code : PlainCodes, text : { <<"a", ".", "t", "s">>, <<"b", ".", "t", "s">> }]
    \cup [code : RenameCodes, text : { <<"a", ".", "t", "s">> \o <<" ", "-", ">", " ">> \o <<"b", ".", "t", "s">> }]

PorcelainLine(e) == e.code \o <<" ">> \o e.text

\* stdout: every line ended by a line break
RECURSIVE PorcelainTextFrom(_, _)
PorcelainTextFrom(input, i) ==
    IF i > Len(input) THEN <<>>
    ELSE PorcelainLine(input[i]) \o <<"\n">> \o PorcelainTextFrom(input, i + 1)

PorcelainText(input) == PorcelainTextFrom(input, 1)

(***************************************************************************)
(* GitService.getGitStatus                                                 *)
(***************************************************************************)
\* statusMap[code] || 'modified'
mapStatusCode(code) ==
    IF code = <<"A">> THEN "added"
    ELSE IF code = <<"M">> THEN "modified"
    ELSE IF code = <<"D">> THEN "deleted"
    ELSE IF code = <<"R">> THEN "renamed"
    ELSE IF code = <<"?", "?">> THEN "added"
    ELSE "modified"

\* line.substring(0, 2)
FirstTwo(line) == SubSeq(line, 1, Min(2, Len(line)))

\* the callback of map: the object literal holds no oldPath
StatusEntry(line) ==
    [path |-> Substring(line, 3),
     status |-> mapStatusCode(Trim(FirstTwo(line))),
     additions |-> 0,
     deletions |-> 0,
     oldPath |-> Undefined]

\* stdout.split('\n').filter(Boolean).map(...)
getGitStatus(stdout) ==
    LET lines == SelectSeq(Split(stdout, <<"\n">>), LAMBDA l : l # <<>>)
    IN  [i \in 1..Len(lines) |-> StatusEntry(lines[i])]

PorcelainIdle ==
    /\ porcelain = <<>>
    /\ statusOut = <<>>
    /\ gitStatus = <<>>
    /\ gpc = "idle"

StartPorcelain ==
    /\ porcelain \in SeqsUpTo(PorcelainEntries, MaxStatusLines)
    /\ statusOut = PorcelainText(porcelain)
    /\ gitStatus = <<>>
    /\ gpc = "call"

GetGitStatusCall ==
    /\ gpc = "call"
    /\ gitStatus' = getGitStatus(statusOut)
    /\ gpc' = "done"
    /\ UNCHANGED <<porcelain, statusOut>>
    /\ UNCHANGED <<analysisVars, logVars, diffVars, blameVars, statusVars, messageVars, sessionVars, entryVars, updateVars, rollbackVars>>

(***************************************************************************)
(* The changes and the style given to CommitMessageService.generateMessage *)
(***************************************************************************)
MaxChanges == 2

ChangePaths ==
    { <<"s", "r", "c", "/", "a", ".", "t", "s">>,
      <<"l", "i", "b", "/", "F", "i", "x", ".", "t", "s">>,
      <<"b", ".", "m", "d">>,
      <<"r", "o", "o", "t", "/", "x", ".", "t", "s">> }

Statuses == {"added", "modified", "deleted", "renamed"}

ChangeChoices == [path : ChangePaths, status : Statuses]

MaxLengths == {3, 20, 40, 72, 120}

Styles ==
    [type : {"conventional", "gitmoji", "detailed", "simple"},
     includeScope : BOOLEAN, includeFooter : BOOLEAN, maxLength : MaxLengths]

\* the text of a status value
StatusText(status) ==
    CASE status = "added" -> <<"a", "d", "d", "e", "d">>
      [] status = "modified" -> <<"m", "o", "d", "i", "f", "i", "e", "d">>
      [] status = "deleted" -> <<"d", "e", "l", "e", "t", "e", "d">>
      [] status = "renamed" -> <<"r", "e", "n", "a", "m", "e", "d">>

(***************************************************************************)
(* CommitMessageService                                                    *)
(***************************************************************************)
\* parts.length > 1 ? parts[0] : 'root'
FirstSegment(path) ==
    LET parts == Split(path, <<"/">>)
    IN  IF Len(parts) > 1 THEN parts[1] ELSE <<"r", "o", "o", "t">>

determineScope(chs) ==
    LET uniqueDirs == {FirstSegment(chs[i].path) : i \in 1..Len(chs)}
    IN  IF Cardinality(uniqueDirs) = 1 THEN CHOOSE dir \in uniqueDirs : TRUE
        ELSE <<"m", "u", "l", "t", "i", "p", "l", "e">>

\* c.path.match(/test|spec|fix/i)
MatchesFixPattern(path) ==
    \/ Includes(ToLower(path), <<"t", "e", "s", "t">>)
    \/ Includes(ToLower(path), <<"s", "p", "e", "c">>)
    \/ Includes(ToLower(path), <<"f", "i", "x">>)

\* mutant: the modified rules are tested before the added rule
determineChangeTypeFixFirst(chs) ==
    LET hasNewFeature == \E i \in 1..Len(chs) : chs[i].status = "added"
        hasFix == \E i \in 1..Len(chs) :
                      chs[i].status = "modified" /\ MatchesFixPattern(chs[i].path)
        hasRefactor == \E i \in 1..Len(chs) :
                      chs[i].status = "modified" /\ ~MatchesFixPattern(chs[i].path)
    IN  IF hasFix THEN <<"f", "i", "x">>
        ELSE IF hasRefactor THEN <<"r", "e", "f", "a", "c", "t", "o", "r">>
        ELSE IF hasNewFeature THEN <<"f", "e", "a", "t">>
        ELSE <<"c", "h", "o", "r", "e">>

determineChangeType(chs) ==
    LET hasNewFeature == \E i \in 1..Len(chs) : chs[i].status = "added"
        hasFix == \E i \in 1..Len(chs) :
                      chs[i].status = "modified" /\ MatchesFixPattern(chs[i].path)
        hasRefactor == \E i \in 1..Len(chs) :
                      chs[i].status = "modified" /\ ~MatchesFixPattern(chs[i].path)
    IN  IF hasNewFeature THEN <<"f", "e", "a", "t">>
        ELSE IF hasFix THEN <<"f", "i", "x">>
        ELSE IF hasRefactor THEN <<"r", "e", "f", "a", "c", "t", "o", "r">>
        ELSE <<"c", "h", "o", "r", "e">>

getActionWord(status) ==
    CASE status = "added" -> <<"A", "d", "d">>
      [] status = "modified" -> <<"U", "p", "d", "a", "t", "e">>
      [] status = "deleted" -> <<"R", "e", "m", "o", "v", "e">>
      [] status = "renamed" -> <<"R", "e", "n", "a", "m", "e">>
      [] OTHER -> <<"U", "p", "d", "a", "t", "e">>

\* the last index of s that holds ".", or 0
RECURSIVE LastDot(_, _)
LastDot(s, i) == IF i = 0 \/ s[i] = "." THEN i ELSE LastDot(s, i - 1)

\* filename.replace(/\.[^/.]+$/, ''): the file name has no "/"
StripExtension(filename) ==
    LET dot == LastDot(filename, Len(filename))
    IN  IF dot > 0 /\ dot < Len(filename) THEN SubSeq(filename, 1, dot - 1) ELSE filename

getComponent(path) ==
    LET parts == Split(path, <<"/">>)
    IN  StripExtension(parts[Len(parts)])

generateDescription(chs) ==
    getActionWord(chs[1].status) \o <<" ">> \o getComponent(chs[1].path)
        \o (IF Len(chs) > 1 THEN <<" ", "a", "n", "d", " ", "r", "e", "l", "a", "t", "e", "d", " ", "f", "i", "l", "e", "s">> ELSE <<>>)

\* the first line: the text before the first line break
FirstLine(text) == Split(text, <<"\n">>)[1]

\* the lines after the first that still fit: result is what is kept so far
RECURSIVE TruncateFrom(_, _, _, _)
TruncateFrom(result, lines, i, maxLength) ==
    IF i > Len(lines) THEN result
    ELSE IF Len(result) + Len(lines[i]) + 1 > maxLength - 3 THEN result \o <<"\n", ".", ".", ".">>
    ELSE TruncateFrom(result \o <<"\n">> \o lines[i], lines, i + 1, maxLength)

\* mutant: a long first line is cut at maxLength
truncateMessageLongCut(msg, maxLength) ==
    LET lines == Split(msg, <<"\n">>) IN
    IF Len(msg) <= maxLength THEN msg
    ELSE IF Len(lines[1]) > maxLength
         THEN SubSeq(lines[1], 1, MaxOf({0, Min(maxLength, Len(lines[1]))})) \o <<".", ".", ".">>
    ELSE TruncateFrom(lines[1], lines, 2, maxLength)

\* substring(0, maxLength - 3) takes a negative end as 0
truncateMessage(msg, maxLength) ==
    LET lines == Split(msg, <<"\n">>) IN
    IF Len(msg) <= maxLength THEN msg
    ELSE IF Len(lines[1]) > maxLength
         THEN SubSeq(lines[1], 1, MaxOf({0, Min(maxLength - 3, Len(lines[1]))})) \o <<".", ".", ".">>
    ELSE TruncateFrom(lines[1], lines, 2, maxLength)

\* mutant: the scope segment is left out
ConventionalTextNoScope(type, scope, description, st) ==
    LET first == type \o <<":", " ">> \o description
    IN  IF st.includeFooter /\ st.maxLength > Len(first) + 20
        THEN first \o <<"\n", "\n", "R", "e", "l", "a", "t", "e", "d", " ", "c", "o", "m", "p", "o", "n", "e", "n", "t", "s", ":", " ">> \o scope
        ELSE first

\* the text generateConventionalMessage hands to truncateMessage
ConventionalText(type, scope, description, st) ==
    LET first == type \o (IF st.includeScope THEN <<"(">> \o scope \o <<")">> ELSE <<>>)
                      \o <<":", " ">> \o description
    IN  IF st.includeFooter /\ st.maxLength > Len(first) + 20
        THEN first \o <<"\n", "\n", "R", "e", "l", "a", "t", "e", "d", " ", "c", "o", "m", "p", "o", "n", "e", "n", "t", "s", ":", " ">> \o scope
        ELSE first

\* the UTF-16 code units of the emoji
getEmojiForType(type) ==
    CASE type = <<"f", "e", "a", "t">> -> <<"u2728">>
      [] type = <<"f", "i", "x">> -> <<"uD83D", "uDC1B">>
      [] type = <<"r", "e", "f", "a", "c", "t", "o", "r">> -> <<"u267B", "uFE0F">>
      [] type = <<"c", "h", "o", "r", "e">> -> <<"uD83D", "uDD27">>
      [] OTHER -> <<"uD83D", "uDCDD">>

\* the text generateGitmojiMessage hands to truncateMessage
GitmojiText(type, scope, description, st) ==
    LET plain == getEmojiForType(type) \o <<" ">> \o description
        first == IF st.includeScope THEN <<"[">> \o scope \o <<"]", " ">> \o plain ELSE plain
    IN  IF st.includeFooter /\ st.maxLength > Len(first) + 20
        THEN first \o <<"\n", "\n", "T", "y", "p", "e", ":", " ">> \o type
        ELSE first

\* the bullet loop of generateDetailedMessage from the i-th change on
RECURSIVE BulletsFrom(_, _, _, _)
BulletsFrom(msg, chs, i, maxLength) ==
    IF i > Len(chs) THEN msg
    ELSE LET line == <<"\n", "-", " ">> \o StatusText(chs[i].status) \o <<":", " ">> \o chs[i].path
         IN  IF Len(msg) + Len(line) > maxLength THEN msg \o <<"\n", "-", " ", ".", ".", ".", " ", "a", "n", "d", " ", "m", "o", "r", "e", " ", "c", "h", "a", "n", "g", "e", "s">>
             ELSE BulletsFrom(msg \o line, chs, i + 1, maxLength)

\* the text generateDetailedMessage hands to truncateMessage
DetailedText(type, scope, description, chs, st) ==
    LET head == type \o <<"(">> \o scope \o <<")">> \o <<":", " ">> \o description \o <<"\n", "\n", "C", "h", "a", "n", "g", "e", "s", ":">>
        listed == BulletsFrom(head, chs, 1, st.maxLength)
    IN  IF st.includeFooter THEN listed \o <<"\n", "\n", "S", "c", "o", "p", "e", ":", " ">> \o scope ELSE listed

\* the text of the style before truncateMessage
RenderedText(chs, st) ==
    LET scope == determineScope(chs)
        type == determineChangeType(chs)
        description == generateDescription(chs)
    IN  CASE st.type = "conventional" -> ConventionalText(type, scope, description, st)
          [] st.type = "gitmoji" -> GitmojiText(type, scope, description, st)
          [] st.type = "detailed" -> DetailedText(type, scope, description, chs, st)
          [] OTHER -> description

generateMessage(chs, st) == truncateMessage(RenderedText(chs, st), st.maxLength)

NoStyle ==
    [type |-> "simple", includeScope |-> FALSE, includeFooter |-> FALSE, maxLength |-> 0]

MessageIdle ==
    /\ changeList = <<>>
    /\ style = NoStyle
    /\ message = <<>>
    /\ mpc = "idle"

StartMessage ==
    /\ changeList \in SeqsUpTo(ChangeChoices, MaxChanges)
    /\ style \in Styles
    /\ message = <<>>
    /\ mpc = "call"

\* generateDescription reads changes[0].status of an empty list
GenerateMessageThrows ==
    /\ mpc = "call"
    /\ changeList = <<>>
    /\ mpc' = "threw"
    /\ UNCHANGED <<changeList, style, message>>
    /\ UNCHANGED <<analysisVars, logVars, diffVars, blameVars, statusVars, porcelainVars, sessionVars, entryVars, updateVars, rollbackVars>>

GenerateConventional ==
    /\ mpc = "call"
    /\ changeList # <<>>
    /\ style.type = "conventional"
    /\ message' = generateMessage(changeList, style)
    /\ mpc' = "done"
    /\ UNCHANGED <<changeList, style>>
    /\ UNCHANGED <<analysisVars, logVars, diffVars, blameVars, statusVars, porcelainVars, sessionVars, entryVars, updateVars, rollbackVars>>

GenerateGitmoji ==
    /\ mpc = "call"
    /\ changeList # <<>>
    /\ style.type = "gitmoji"
    /\ message' = generateMessage(changeList, style)
    /\ mpc' = "done"
    /\ UNCHANGED <<changeList, style>>
    /\ UNCHANGED <<analysisVars, logVars, diffVars, blameVars, statusVars, porcelainVars, sessionVars, entryVars, updateVars, rollbackVars>>

GenerateDetailed ==
    /\ mpc = "call"
    /\ changeList # <<>>
    /\ style.type = "detailed"
    /\ message' = generateMessage(changeList, style)
    /\ mpc' = "done"
    /\ UNCHANGED <<changeList, style>>
    /\ UNCHANGED <<analysisVars, logVars, diffVars, blameVars, statusVars, porcelainVars, sessionVars, entryVars, updateVars, rollbackVars>>

GenerateSimple ==
    /\ mpc = "call"
    /\ changeList # <<>>
    /\ style.type = "simple"
    /\ message' = generateMessage(changeList, style)
    /\ mpc' = "done"
    /\ UNCHANGED <<changeList, style>>
    /\ UNCHANGED <<analysisVars, logVars, diffVars, blameVars, statusVars, porcelainVars, sessionVars, entryVars, updateVars, rollbackVars>>

(***************************************************************************)
(* A session: one GitService and the gitParser module serve several parse  *)
(* calls, one after the other.  Every call of parseDiff and parseBlame     *)
(* declares its locals anew; parseFileStatus and parseGitLogEntry run to   *)
(* their return in one step.  parsed is the history of the finished calls. *)
(***************************************************************************)
MaxCalls == 3

SessionDiffs == { <<8, 1, 6>>, <<1, 4, 7>> }

SessionBlames ==
    { << [hashLine |-> "keyword", author |-> TRUE, time |-> TRUE] >>,
      << [hashLine |-> "porcelain", author |-> TRUE, time |-> FALSE] >> }

SessionStatusInputs ==
    { [lead |-> <<>>, status |-> <<"R">>, sep |-> <<" ">>, paths |-> << <<"a", ".", "t", "s">>, <<"b", ".", "t", "s">> >>, trail |-> <<>>],
      [lead |-> <<" ">>, status |-> <<"M">>, sep |-> <<" ">>, paths |-> << <<"a", ".", "t", "s">> >>, trail |-> <<>>] }

SessionLogRecords ==
    { NoStat, [has |-> TRUE, files |-> 12, ins |-> 3, del |-> 10] }

\* the call before has returned
SessionReady ==
    /\ callCount < MaxCalls
    /\ \/ running \in {"none", "status", "log"}
       \/ running = "diff" /\ dpc = "done"
       \/ running = "blame" /\ bpc = "done"

\* the call before, its argument and what it returned
LastCall ==
    CASE running = "diff" -> [parser |-> "diff", input |-> diffInput, result |-> ReturnedDiff]
      [] running = "blame" -> [parser |-> "blame", input |-> blameInput, result |-> results]
      [] running = "status" -> [parser |-> "status", input |-> statusLine, result |-> fileChange]
      [] running = "log" -> [parser |-> "log", input |-> logRecords, result |-> commit]

Recorded == IF running = "none" THEN parsed ELSE Append(parsed, LastCall)

SessionIdle ==
    /\ parsed = <<>>
    /\ running = "none"
    /\ callCount = 0

\* parseDiff(diff, filePath): the locals declared at its start
SessionParseDiff ==
    /\ SessionReady
    /\ \E input \in SessionDiffs :
          /\ diffInput' = input
          /\ diffLines' = Split(DiffText(input), <<"\n">>)
    /\ filePath' = "a.txt"
    /\ diffIdx' = 0
    /\ hunkHeap' = <<>>
    /\ currentHunk' = 0
    /\ hunks' = <<>>
    /\ additions' = 0
    /\ deletions' = 0
    /\ dpc' = "loop"
    /\ parsed' = Recorded
    /\ running' = "diff"
    /\ callCount' = callCount + 1
    /\ UNCHANGED <<analysisVars, logVars, blameVars, statusVars, porcelainVars, messageVars, entryVars, updateVars, rollbackVars>>

\* mutant: results is kept from the call before
SessionParseBlameKeepsResults ==
    /\ SessionReady
    /\ \E input \in SessionBlames :
          /\ blameInput' = input
          /\ blameLines' = Split(BlameText(input), <<"\n">>)
    /\ blameIdx' = 0
    /\ current' = EmptyPartial
    /\ results' = results
    /\ bpc' = "loop"
    /\ parsed' = Recorded
    /\ running' = "blame"
    /\ callCount' = callCount + 1
    /\ UNCHANGED <<analysisVars, logVars, diffVars, statusVars, porcelainVars, messageVars, entryVars, updateVars, rollbackVars>>

\* parseBlame(blame): the locals declared at its start
SessionParseBlame ==
    /\ SessionReady
    /\ \E input \in SessionBlames :
          /\ blameInput' = input
          /\ blameLines' = Split(BlameText(input), <<"\n">>)
    /\ blameIdx' = 0
    /\ current' = EmptyPartial
    /\ results' = <<>>
    /\ bpc' = "loop"
    /\ parsed' = Recorded
    /\ running' = "blame"
    /\ callCount' = callCount + 1
    /\ UNCHANGED <<analysisVars, logVars, diffVars, statusVars, porcelainVars, messageVars, entryVars, updateVars, rollbackVars>>

\* parseFileStatus(statusLine)
SessionParseFileStatus ==
    /\ SessionReady
    /\ \E in \in SessionStatusInputs :
          /\ statusInput' = in
          /\ statusLine' = StatusLineOf(in)
          /\ fileChange' = parseFileStatus(StatusLineOf(in))
    /\ spc' = "done"
    /\ parsed' = Recorded
    /\ running' = "status"
    /\ callCount' = callCount + 1
    /\ UNCHANGED <<analysisVars, logVars, diffVars, blameVars, porcelainVars, messageVars, entryVars, updateVars, rollbackVars>>

\* parseGitLogEntry(logEntry), parseGitStats within
SessionParseGitLogEntry ==
    /\ SessionReady
    /\ \E st \in SessionLogRecords :
          /\ logRecords' = <<st>>
          /\ commit' = parseGitLogEntry(Block(st, "blank", 1))
    /\ logLayout' = "blank"
    /\ entryIdx' = 1
    /\ commits' = <<>>
    /\ lpc' = "entry"
    /\ parsed' = Recorded
    /\ running' = "log"
    /\ callCount' = callCount + 1
    /\ UNCHANGED <<analysisVars, diffVars, blameVars, statusVars, porcelainVars, messageVars, entryVars, updateVars, rollbackVars>>

(***************************************************************************)
(* A log block whose header line holds only the first fields of            *)
(* hash|author|date|subject, with or without a stat part.                  *)
(***************************************************************************)
EntryInputs == [fields : 1..4, st : StatChoices, layout : Layouts]

HeaderFields == << Hashes[1], AuthorName, DateText, Subject >>

ShortHeader(k) == Join(SubSeq(HeaderFields, 1, k), <<"|">>)

EntryText(in) ==
    ShortHeader(in.fields) \o
    (IF ~in.st.has THEN <<>>
     ELSE IF in.layout = "git" THEN <<"\n">> \o FileStatLine \o <<"\n">> \o SummaryLine(in.st)
     ELSE IF in.layout = "bare" THEN <<"\n">> \o SummaryLine(in.st)
     ELSE <<"\n", "\n">> \o FileStatLine \o <<"\n">> \o SummaryLine(in.st))

NoEntry == [fields |-> 4, st |-> NoStat, layout |-> "git"]

EntryIdle ==
    /\ entryInput = NoEntry
    /\ shortEntry = <<>>
    /\ entryCommit = EmptyCommit
    /\ epc = "idle"

StartEntry ==
    /\ entryInput \in EntryInputs
    /\ shortEntry = EntryText(entryInput)
    /\ entryCommit = EmptyCommit
    /\ epc = "call"

\* parseGitLogEntry(logEntry): no statement of it throws on a string
ParseShortEntry ==
    /\ epc = "call"
    /\ entryCommit' = parseGitLogEntry(shortEntry)
    /\ epc' = "done"
    /\ UNCHANGED <<entryInput, shortEntry>>
    /\ UNCHANGED <<analysisVars, logVars, diffVars, blameVars, statusVars, porcelainVars, messageVars, sessionVars, updateVars, rollbackVars>>


(***************************************************************************)
(* UpdateService: the status, the calls in flight and the timer            *)
(***************************************************************************)
MaxUpdateCalls == 2

UpdateCalls == 1..MaxUpdateCalls

\* the tags of the update source; the version of package.json is one of them
Versions == { <<"1", ".", "0", ".", "0">>, <<"1", ".", "1", ".", "0">> }

\* the constructor's status
InitialStatus ==
    [currentVersion |-> <<"0", ".", "0", ".", "0">>,
     latestVersion |-> <<"0", ".", "0", ".", "0">>,
     updateAvailable |-> FALSE,
     lastUpdateCheck |-> 0,
     lastUpdate |-> 0,
     pendingChanges |-> <<>>]

NoResult == [kind |-> "none"]

FreeCall ==
    [op |-> "none", origin |-> "none", pc |-> "free", version |-> <<>>, flag |-> FALSE, target |-> <<>>, backupPath |-> <<>>, result |-> NoResult]

\* a call that has not returned and not thrown
InProgress(c) == calls[c].pc \notin {"free", "returned", "threw"}

\* a call that is over: its locals are gone, its result or its error stays
Finished(c, pc, result) ==
    [FreeCall EXCEPT !.op = calls[c].op, !.origin = calls[c].origin, !.pc = pc, !.result = result]

\* the slot the next call takes
NextFree(c) ==
    /\ calls[c].pc = "free"
    /\ \A d \in UpdateCalls : d < c => calls[d].pc # "free"

\* join(rootDir, config.backup.path, `backup-${version}`), below rootDir
BackupPathOf(version) == <<"b", "a", "c", "k", "u", "p", "s", "/", "b", "a", "c", "k", "u", "p", "-">> \o version

\* a parameter with the default true
DefaultTrue(b) == IF b = "undefined" THEN TRUE ELSE b = "true"

OptionalFlags == {"undefined", "true", "false"}

\* the subjects git log prints for the range
ChangeLogs == { <<"f", "i", "x", ":", " ", "a", "\n", "s", "e", "c", "u", "r", "i", "t", "y", ":", " ", "b">>, <<"a", "d", "d", " ", "c">> }

\* the pendingChanges checkForUpdates makes of the changelog
PendingOf(changelog) ==
    LET lines == Split(changelog, <<"\n">>)
    IN  [i \in 1..Len(lines) |->
            [type |-> IF Includes(lines[i], <<"f", "i", "x", ":">>) THEN "bugfix"
                      ELSE IF Includes(lines[i], <<"s", "e", "c", "u", "r", "i", "t", "y", ":">>) THEN "security" ELSE "feature",
             description |-> Trim(lines[i])]]

UpdateIdle ==
    /\ updateStatus = InitialStatus
    /\ config = [auto_update |-> FALSE, backup_enabled |-> FALSE]
    /\ calls = [c \in UpdateCalls |-> FreeCall]
    /\ backups = {}
    /\ timerOn = FALSE
    /\ clock = 0
    /\ upc = "idle"

\* new UpdateService(rootDir, config)
StartUpdate ==
    /\ updateStatus = InitialStatus
    /\ config \in [auto_update : BOOLEAN, backup_enabled : BOOLEAN]
    /\ calls = [c \in UpdateCalls |-> FreeCall]
    /\ backups = {}
    /\ timerOn = FALSE
    /\ clock = 0
    /\ upc = "new"

\* initialize: package.json read, the remote added, the timer started
InitializeOk ==
    /\ upc = "new"
    /\ \E version \in Versions : updateStatus' = [updateStatus EXCEPT !.currentVersion = version]
    /\ timerOn' = config.auto_update
    /\ upc' = "ready"
    /\ UNCHANGED <<config, calls, backups, clock>>
    /\ UNCHANGED <<analysisVars, logVars, diffVars, blameVars, statusVars, porcelainVars, messageVars, sessionVars, entryVars, rollbackVars>>

\* initialize when package.json cannot be read
InitializeReadFails ==
    /\ upc = "new"
    /\ upc' = "failed"
    /\ UNCHANGED <<updateStatus, config, calls, backups, timerOn, clock>>
    /\ UNCHANGED <<analysisVars, logVars, diffVars, blameVars, statusVars, porcelainVars, messageVars, sessionVars, entryVars, rollbackVars>>

\* initialize when git remote add fails: the version is already set
InitializeRemoteFails ==
    /\ upc = "new"
    /\ \E version \in Versions : updateStatus' = [updateStatus EXCEPT !.currentVersion = version]
    /\ upc' = "failed"
    /\ UNCHANGED <<config, calls, backups, timerOn, clock>>
    /\ UNCHANGED <<analysisVars, logVars, diffVars, blameVars, statusVars, porcelainVars, messageVars, sessionVars, entryVars, rollbackVars>>

\* the call record of checkForUpdates up to its first await
CheckCall(origin) ==
    [FreeCall EXCEPT !.op = "checkForUpdates", !.origin = origin, !.pc = "fetch"]

\* applyUpdate when the backup is named after the target version
ApplyCallBackupOfTarget(origin, version, backup, st) ==
    [op |-> "applyUpdate",
     origin |-> origin,
     pc |-> IF backup THEN "mkdir" ELSE "checkout",
     version |-> version,
     flag |-> backup,
     target |-> IF version = Undefined THEN st.latestVersion ELSE version,
     backupPath |-> IF backup THEN BackupPathOf(IF version = Undefined THEN st.latestVersion ELSE version) ELSE <<>>,
     result |-> NoResult]

\* the call record of applyUpdate up to its first await: the target is
\* version || latestVersion, and createBackup names the backup after
\* currentVersion before it awaits mkdir
ApplyCall(origin, version, backup, st) ==
    [op |-> "applyUpdate",
     origin |-> origin,
     pc |-> IF backup THEN "mkdir" ELSE "checkout",
     version |-> version,
     flag |-> backup,
     target |-> IF version = Undefined THEN st.latestVersion ELSE version,
     backupPath |-> IF backup THEN BackupPathOf(st.currentVersion) ELSE <<>>,
     result |-> NoResult]

\* the call record of rollbackUpdate up to its first await
RollbackCall(version, useBackup) ==
    [op |-> "rollbackUpdate",
     origin |-> "tool",
     pc |-> IF useBackup THEN "access" ELSE "checkout",
     version |-> version,
     flag |-> useBackup,
     target |-> version,
     backupPath |-> IF useBackup THEN BackupPathOf(version) ELSE <<>>,
     result |-> NoResult]

\* the setInterval callback runs: nothing looks at the cycles still running
TimerFires(c) ==
    /\ upc = "ready"
    /\ timerOn
    /\ NextFree(c)
    /\ calls' = [calls EXCEPT ![c] = CheckCall("timer")]
    /\ UNCHANGED <<updateStatus, config, backups, timerOn, clock, upc>>
    /\ UNCHANGED <<analysisVars, logVars, diffVars, blameVars, statusVars, porcelainVars, messageVars, sessionVars, entryVars, rollbackVars>>

\* the check_for_updates tool
CallCheckForUpdates(c) ==
    /\ upc = "ready"
    /\ NextFree(c)
    /\ calls' = [calls EXCEPT ![c] = CheckCall("tool")]
    /\ UNCHANGED <<updateStatus, config, backups, timerOn, clock, upc>>
    /\ UNCHANGED <<analysisVars, logVars, diffVars, blameVars, statusVars, porcelainVars, messageVars, sessionVars, entryVars, rollbackVars>>

\* git fetch done
CheckFetched(c) ==
    /\ calls[c].op = "checkForUpdates"
    /\ calls[c].pc = "fetch"
    /\ calls' = [calls EXCEPT ![c].pc = "describe"]
    /\ UNCHANGED <<updateStatus, config, backups, timerOn, clock, upc>>
    /\ UNCHANGED <<analysisVars, logVars, diffVars, blameVars, statusVars, porcelainVars, messageVars, sessionVars, entryVars, rollbackVars>>

\* what checkForUpdates returns
CheckResult(st) ==
    [kind |-> "check",
     updateAvailable |-> st.updateAvailable,
     currentVersion |-> st.currentVersion,
     latestVersion |-> st.latestVersion,
     changes |-> st.pendingChanges]

\* the end of checkForUpdates: a tool call returns; the timer's callback
\* goes on to applyUpdate when the status says an update is available
AfterCheck(c, st) ==
    IF calls[c].origin = "timer" /\ st.updateAvailable
    THEN ApplyCall("timer", Undefined, config.backup_enabled, st)
    ELSE Finished(c, "returned", CheckResult(st))

\* git describe done: the latest tag is read and compared
CheckDescribed(c) ==
    /\ calls[c].op = "checkForUpdates"
    /\ calls[c].pc = "describe"
    /\ \E tag \in Versions :
          LET latest == Trim(tag \o <<"\n">>)
              st == [updateStatus EXCEPT !.latestVersion = latest,
                                   !.updateAvailable = (latest # updateStatus.currentVersion),
                                   !.lastUpdateCheck = clock + 1]
          IN  /\ updateStatus' = st
              /\ calls' = [calls EXCEPT ![c] = IF st.updateAvailable THEN [calls[c] EXCEPT !.pc = "log"]
                                                ELSE AfterCheck(c, st)]
    /\ clock' = clock + 1
    /\ UNCHANGED <<config, backups, timerOn, upc>>
    /\ UNCHANGED <<analysisVars, logVars, diffVars, blameVars, statusVars, porcelainVars, messageVars, sessionVars, entryVars, rollbackVars>>

\* git log done: the pending changes are set
CheckLogged(c) ==
    /\ calls[c].op = "checkForUpdates"
    /\ calls[c].pc = "log"
    /\ \E changelog \in ChangeLogs :
          LET st == [updateStatus EXCEPT !.pendingChanges = PendingOf(changelog)]
          IN  /\ updateStatus' = st
              /\ calls' = [calls EXCEPT ![c] = AfterCheck(c, st)]
    /\ UNCHANGED <<config, backups, timerOn, clock, upc>>
    /\ UNCHANGED <<analysisVars, logVars, diffVars, blameVars, statusVars, porcelainVars, messageVars, sessionVars, entryVars, rollbackVars>>

\* fetch, describe or log fails: the error is rethrown (the timer's
\* callback catches it and the cycle ends)
CheckFails(c) ==
    /\ calls[c].op = "checkForUpdates"
    /\ calls[c].pc \in {"fetch", "describe", "log"}
    /\ calls' = [calls EXCEPT ![c] = Finished(c, "threw", [kind |-> "error"])]
    /\ UNCHANGED <<updateStatus, config, backups, timerOn, clock, upc>>
    /\ UNCHANGED <<analysisVars, logVars, diffVars, blameVars, statusVars, porcelainVars, messageVars, sessionVars, entryVars, rollbackVars>>

\* the apply_update tool
CallApplyUpdate(c) ==
    /\ upc = "ready"
    /\ NextFree(c)
    /\ \E version \in Versions \cup {Undefined}, backup \in OptionalFlags :
          calls' = [calls EXCEPT ![c] = ApplyCall("tool", version, DefaultTrue(backup), updateStatus)]
    /\ UNCHANGED <<updateStatus, config, backups, timerOn, clock, upc>>
    /\ UNCHANGED <<analysisVars, logVars, diffVars, blameVars, statusVars, porcelainVars, messageVars, sessionVars, entryVars, rollbackVars>>

\* createBackup: the backup directory is made
ApplyBackupDirMade(c) ==
    /\ calls[c].op = "applyUpdate"
    /\ calls[c].pc = "mkdir"
    /\ calls' = [calls EXCEPT ![c].pc = "rsync"]
    /\ UNCHANGED <<updateStatus, config, backups, timerOn, clock, upc>>
    /\ UNCHANGED <<analysisVars, logVars, diffVars, blameVars, statusVars, porcelainVars, messageVars, sessionVars, entryVars, rollbackVars>>

\* createBackup: the files are copied to the backup path
ApplyBackupCopied(c) ==
    /\ calls[c].op = "applyUpdate"
    /\ calls[c].pc = "rsync"
    /\ backups' = backups \cup {calls[c].backupPath}
    /\ calls' = [calls EXCEPT ![c].pc = "checkout"]
    /\ UNCHANGED <<updateStatus, config, timerOn, clock, upc>>
    /\ UNCHANGED <<analysisVars, logVars, diffVars, blameVars, statusVars, porcelainVars, messageVars, sessionVars, entryVars, rollbackVars>>

\* git checkout done when currentVersion is set as soon as the target is checked out
ApplyCheckedOutSetsVersion(c) ==
    /\ calls[c].op = "applyUpdate"
    /\ calls[c].pc = "checkout"
    /\ calls' = [calls EXCEPT ![c].pc = "install"]
    /\ updateStatus' = [updateStatus EXCEPT !.currentVersion = calls[c].target]
    /\ UNCHANGED <<config, backups, timerOn, clock, upc>>
    /\ UNCHANGED <<analysisVars, logVars, diffVars, blameVars, statusVars, porcelainVars, messageVars, sessionVars, entryVars, rollbackVars>>

\* git checkout of the target done
ApplyCheckedOut(c) ==
    /\ calls[c].op = "applyUpdate"
    /\ calls[c].pc = "checkout"
    /\ calls' = [calls EXCEPT ![c].pc = "install"]
    /\ UNCHANGED <<updateStatus, config, backups, timerOn, clock, upc>>
    /\ UNCHANGED <<analysisVars, logVars, diffVars, blameVars, statusVars, porcelainVars, messageVars, sessionVars, entryVars, rollbackVars>>

\* npm install done
ApplyInstalled(c) ==
    /\ calls[c].op = "applyUpdate"
    /\ calls[c].pc = "install"
    /\ calls' = [calls EXCEPT ![c].pc = "build"]
    /\ UNCHANGED <<updateStatus, config, backups, timerOn, clock, upc>>
    /\ UNCHANGED <<analysisVars, logVars, diffVars, blameVars, statusVars, porcelainVars, messageVars, sessionVars, entryVars, rollbackVars>>

\* npm run build done: the status is updated and the result returned
ApplyBuilt(c) ==
    /\ calls[c].op = "applyUpdate"
    /\ calls[c].pc = "build"
    /\ updateStatus' = [updateStatus EXCEPT !.currentVersion = calls[c].target,
                                !.lastUpdate = clock + 1,
                                !.updateAvailable = FALSE,
                                !.pendingChanges = <<>>]
    /\ clock' = clock + 1
    /\ calls' = [calls EXCEPT ![c] = Finished(c, "returned",
                                               [kind |-> "apply",
                                                success |-> TRUE,
                                                previousVersion |-> updateStatus.currentVersion,
                                                newVersion |-> calls[c].target,
                                                backupCreated |-> calls[c].backupPath # <<>>,
                                                backupPath |-> calls[c].backupPath])]
    /\ UNCHANGED <<config, backups, timerOn, upc>>
    /\ UNCHANGED <<analysisVars, logVars, diffVars, blameVars, statusVars, porcelainVars, messageVars, sessionVars, entryVars, rollbackVars>>

\* mkdir, rsync, checkout, install or build fails: the error is rethrown
ApplyFails(c) ==
    /\ calls[c].op = "applyUpdate"
    /\ calls[c].pc \in {"mkdir", "rsync", "checkout", "install", "build"}
    /\ calls' = [calls EXCEPT ![c] = Finished(c, "threw", [kind |-> "error"])]
    /\ UNCHANGED <<updateStatus, config, backups, timerOn, clock, upc>>
    /\ UNCHANGED <<analysisVars, logVars, diffVars, blameVars, statusVars, porcelainVars, messageVars, sessionVars, entryVars, rollbackVars>>

\* the rollback_update tool
CallRollbackUpdate(c) ==
    /\ upc = "ready"
    /\ NextFree(c)
    /\ \E version \in Versions, useBackup \in OptionalFlags :
          calls' = [calls EXCEPT ![c] = RollbackCall(version, DefaultTrue(useBackup))]
    /\ UNCHANGED <<updateStatus, config, backups, timerOn, clock, upc>>
    /\ UNCHANGED <<analysisVars, logVars, diffVars, blameVars, statusVars, porcelainVars, messageVars, sessionVars, entryVars, rollbackVars>>

\* what rollbackUpdate returns from its catch
RollbackFailure(error) ==
    [kind |-> "rollback", success |-> FALSE, currentVersion |-> updateStatus.currentVersion, error |-> error]

\* fs.access done: the backup is there, or the error is thrown and caught
RollbackAccessed(c) ==
    /\ calls[c].op = "rollbackUpdate"
    /\ calls[c].pc = "access"
    /\ calls' = [calls EXCEPT ![c] = IF calls[c].backupPath \in backups
                                      THEN [calls[c] EXCEPT !.pc = "restore"]
                                      ELSE Finished(c, "returned", RollbackFailure(<<"N", "o", " ", "b", "a", "c", "k", "u", "p", " ", "f", "o", "u", "n", "d", " ", "f", "o", "r", " ", "v", "e", "r", "s", "i", "o", "n", " ">> \o calls[c].version))]
    /\ UNCHANGED <<updateStatus, config, backups, timerOn, clock, upc>>
    /\ UNCHANGED <<analysisVars, logVars, diffVars, blameVars, statusVars, porcelainVars, messageVars, sessionVars, entryVars, rollbackVars>>

\* a step of rollbackUpdate before the last: the files restored from the
\* backup, or the version checked out, or npm install done after checkout
RollbackStepped(c) ==
    /\ calls[c].op = "rollbackUpdate"
    /\ calls[c].pc \in {"restore", "checkout", "install"}
    /\ calls' = [calls EXCEPT ![c].pc = CASE calls[c].pc = "restore" -> "reinstall"
                                          [] calls[c].pc = "checkout" -> "install"
                                          [] OTHER -> "build"]
    /\ UNCHANGED <<updateStatus, config, backups, timerOn, clock, upc>>
    /\ UNCHANGED <<analysisVars, logVars, diffVars, blameVars, statusVars, porcelainVars, messageVars, sessionVars, entryVars, rollbackVars>>

\* the last step done (npm install after the restore, npm run build after
\* the checkout): currentVersion is set and the result returned
RollbackDone(c) ==
    /\ calls[c].op = "rollbackUpdate"
    /\ calls[c].pc \in {"reinstall", "build"}
    /\ updateStatus' = [updateStatus EXCEPT !.currentVersion = calls[c].version]
    /\ calls' = [calls EXCEPT ![c] = Finished(c, "returned",
                                               [kind |-> "rollback",
                                                success |-> TRUE,
                                                currentVersion |-> calls[c].version,
                                                error |-> Undefined])]
    /\ UNCHANGED <<config, backups, timerOn, clock, upc>>
    /\ UNCHANGED <<analysisVars, logVars, diffVars, blameVars, statusVars, porcelainVars, messageVars, sessionVars, entryVars, rollbackVars>>

\* a command of rollbackUpdate fails: caught, success is false
RollbackFails(c) ==
    /\ calls[c].op = "rollbackUpdate"
    /\ calls[c].pc \in {"restore", "reinstall", "checkout", "install", "build"}
    /\ calls' = [calls EXCEPT ![c] = Finished(c, "returned", RollbackFailure(<<"C", "o", "m", "m", "a", "n", "d", " ", "f", "a", "i", "l", "e", "d">>))]
    /\ UNCHANGED <<updateStatus, config, backups, timerOn, clock, upc>>
    /\ UNCHANGED <<analysisVars, logVars, diffVars, blameVars, statusVars, porcelainVars, messageVars, sessionVars, entryVars, rollbackVars>>


(***************************************************************************)
(* GitService.rollback                                                     *)
(***************************************************************************)
MaxTicks == 2

\* the targets: a file path and a commit hash
RollbackTargets == { <<"s", "r", "c", "/", "a", ".", "t", "s">>, <<"a", "b", "c", "1", "2", "3">> }

RollbackOptionChoices ==
    [type : {"commit", "file"},
     target : RollbackTargets,
     commitHash : {Undefined, <<"d", "e", "f", "4", "5", "6">>},
     createBackup : OptionalFlags]

NoOptions ==
    [type |-> "file", target |-> <<>>, commitHash |-> Undefined, createBackup |-> "undefined"]

\* new Date().toISOString() at the time ms, within the first second
ToISOString(ms) ==
    LET digits == NatToDigits(ms)
    IN  <<"1", "9", "7", "0", "-", "0", "1", "-", "0", "1", "T", "0", "0", ":", "0", "0", ":", "0", "0", ".">> \o Repeat(<<"0">>, 3 - Len(digits)) \o digits \o <<"Z">>

\* s.replace(/[chars]/g, by) for a one-character replacement
ReplaceChars(s, chars, by) ==
    [i \in 1..Len(s) |-> IF s[i] \in chars THEN by[1] ELSE s[i]]

\* getBackupPath at the time ms: the path is made of the target and the
\* time of this call
getBackupPath(opts, ms) ==
    LET timestamp == ReplaceChars(ToISOString(ms), {":", "."}, <<"-">>)
        backupDir == <<".", "g", "i", "t", "/", "b", "a", "c", "k", "u", "p", "s">>
    IN  backupDir \o <<"/">> \o ReplaceChars(opts.target, {"/"}, <<"_">>) \o <<"_">> \o timestamp

\* the backup branch of a commit rollback
BackupBranch(opts) == <<"b", "a", "c", "k", "u", "p", "/">> \o opts.target

\* the first git command of the rollback
FirstCommand(opts) == IF opts.type = "commit" THEN "revert" ELSE "checkout"

\* the revision git checkout takes the file from
CheckoutRevision(opts) ==
    IF opts.commitHash # Undefined /\ opts.commitHash # <<>> THEN opts.commitHash ELSE <<"H", "E", "A", "D">>

NoRollbackResult == [kind |-> "none"]

RollbackIdle ==
    /\ options = NoOptions
    /\ now = 0
    /\ backupTo = <<>>
    /\ written = {}
    /\ ran = <<>>
    /\ rollbackResult = NoRollbackResult
    /\ rpc = "idle"

\* rollback(options) is called
StartRollback ==
    /\ options \in RollbackOptionChoices
    /\ now = 0
    /\ backupTo = <<>>
    /\ written = {}
    /\ ran = <<>>
    /\ rollbackResult = NoRollbackResult
    /\ rpc = "call"

\* the clock goes on while a command is awaited
TimePasses ==
    /\ rpc \notin {"idle", "done"}
    /\ now < MaxTicks
    /\ now' = now + 1
    /\ UNCHANGED <<options, backupTo, written, ran, rollbackResult, rpc>>
    /\ UNCHANGED <<analysisVars, logVars, diffVars, blameVars, statusVars, porcelainVars, messageVars, sessionVars, entryVars, updateVars>>

\* rollback when createBackup is not awaited before the git commands
RollbackCalledNoBackup ==
    /\ rpc = "call"
    /\ rpc' = FirstCommand(options)
    /\ UNCHANGED <<options, now, backupTo, written, ran, rollbackResult>>
    /\ UNCHANGED <<analysisVars, logVars, diffVars, blameVars, statusVars, porcelainVars, messageVars, sessionVars, entryVars, updateVars>>

\* up to the first await: createBackup when the option is set
RollbackCalled ==
    /\ rpc = "call"
    /\ rpc' = IF options.createBackup = "true" THEN "mkdir" ELSE FirstCommand(options)
    /\ UNCHANGED <<options, now, backupTo, written, ran, rollbackResult>>
    /\ UNCHANGED <<analysisVars, logVars, diffVars, blameVars, statusVars, porcelainVars, messageVars, sessionVars, entryVars, updateVars>>

\* createBackup: the directory is made; for a file the backup path is
\* taken from getBackupPath now
BackupDirMade ==
    /\ rpc = "mkdir"
    /\ ran' = Append(ran, [cmd |-> "mkdir", ok |-> TRUE])
    /\ backupTo' = IF options.type = "file" THEN getBackupPath(options, now) ELSE <<>>
    /\ rpc' = IF options.type = "file" THEN "copyFile" ELSE "branch"
    /\ UNCHANGED <<options, now, written, rollbackResult>>
    /\ UNCHANGED <<analysisVars, logVars, diffVars, blameVars, statusVars, porcelainVars, messageVars, sessionVars, entryVars, updateVars>>

\* createBackup: the file is copied to the backup path
BackupFileCopied ==
    /\ rpc = "copyFile"
    /\ ran' = Append(ran, [cmd |-> "copyFile", ok |-> TRUE])
    /\ written' = written \cup {backupTo}
    /\ rpc' = FirstCommand(options)
    /\ UNCHANGED <<options, now, backupTo, rollbackResult>>
    /\ UNCHANGED <<analysisVars, logVars, diffVars, blameVars, statusVars, porcelainVars, messageVars, sessionVars, entryVars, updateVars>>

\* createBackup: the backup branch is made
BackupBranchMade ==
    /\ rpc = "branch"
    /\ ran' = Append(ran, [cmd |-> "branch", ok |-> TRUE])
    /\ written' = written \cup {BackupBranch(options)}
    /\ rpc' = FirstCommand(options)
    /\ UNCHANGED <<options, now, backupTo, rollbackResult>>
    /\ UNCHANGED <<analysisVars, logVars, diffVars, blameVars, statusVars, porcelainVars, messageVars, sessionVars, entryVars, updateVars>>

\* git revert --no-commit done
Reverted ==
    /\ rpc = "revert"
    /\ ran' = Append(ran, [cmd |-> "revert", ok |-> TRUE])
    /\ rpc' = "commit"
    /\ UNCHANGED <<options, now, backupTo, written, rollbackResult>>
    /\ UNCHANGED <<analysisVars, logVars, diffVars, blameVars, statusVars, porcelainVars, messageVars, sessionVars, entryVars, updateVars>>

\* the result of a rollback that went through: the backup path is asked
\* of getBackupPath again, at the time the result is made
RollbackSuccess ==
    [kind |-> "result",
     success |-> TRUE,
     backupCreated |-> options.createBackup,
     backupPath |-> IF options.createBackup = "true" THEN getBackupPath(options, now) ELSE Undefined,
     error |-> Undefined]

\* the last git command done: git commit after the revert, or git checkout
\* of the file
LastCommandDone ==
    /\ rpc \in {"commit", "checkout"}
    /\ ran' = Append(ran, [cmd |-> rpc, ok |-> TRUE])
    /\ rollbackResult' = RollbackSuccess
    /\ rpc' = "done"
    /\ UNCHANGED <<options, now, backupTo, written>>
    /\ UNCHANGED <<analysisVars, logVars, diffVars, blameVars, statusVars, porcelainVars, messageVars, sessionVars, entryVars, updateVars>>

\* a step fails: the catch makes the result
RollbackStepFails ==
    /\ rpc \in {"mkdir", "copyFile", "branch", "revert", "commit", "checkout"}
    /\ ran' = Append(ran, [cmd |-> rpc, ok |-> FALSE])
    /\ rollbackResult' = [kind |-> "result", success |-> FALSE, backupCreated |-> "undefined", backupPath |-> Undefined, error |-> <<"C", "o", "m", "m", "a", "n", "d", " ", "f", "a", "i", "l", "e", "d">>]
    /\ rpc' = "done"
    /\ UNCHANGED <<options, now, backupTo, written>>
    /\ UNCHANGED <<analysisVars, logVars, diffVars, blameVars, statusVars, porcelainVars, messageVars, sessionVars, entryVars, updateVars>>

(***************************************************************************)
(* Specifications: one per operation, the other operations not running.    *)
(***************************************************************************)
NextAnalysis == AnalyzeFileOk \/ AnalyzeFileError \/ NormalizeScores

InitAnalysis == StartAnalysis /\ LogIdle /\ DiffIdle /\ BlameIdle /\ StatusIdle /\ PorcelainIdle /\ MessageIdle /\ SessionIdle /\ EntryIdle /\ UpdateIdle /\ RollbackIdle

SpecAnalysis == InitAnalysis /\ [][NextAnalysis]_vars

NextLog == ParseGitLogEntryCall \/ ParseGitLogCall

InitLog == StartLog /\ AnalysisIdle /\ DiffIdle /\ BlameIdle /\ StatusIdle /\ PorcelainIdle /\ MessageIdle /\ SessionIdle /\ EntryIdle /\ UpdateIdle /\ RollbackIdle

SpecLog == InitLog /\ [][NextLog]_vars

NextDiff ==
    DiffHunkHeader \/ DiffUnmatchedHeader \/ DiffHunkLine \/ DiffSkipLine \/ DiffFinish

InitDiff == StartDiff /\ AnalysisIdle /\ LogIdle /\ BlameIdle /\ StatusIdle /\ PorcelainIdle /\ MessageIdle /\ SessionIdle /\ EntryIdle /\ UpdateIdle /\ RollbackIdle

SpecDiff == InitDiff /\ [][NextDiff]_vars

NextBlame ==
    \/ BlameAuthorLine \/ BlameAuthorTimeLine \/ BlameHashLine
    \/ BlameContentLine \/ BlameOtherLine \/ BlameFinish

InitBlame == StartBlame /\ AnalysisIdle /\ LogIdle /\ DiffIdle /\ StatusIdle /\ PorcelainIdle /\ MessageIdle /\ SessionIdle /\ EntryIdle /\ UpdateIdle /\ RollbackIdle

SpecBlame == InitBlame /\ [][NextBlame]_vars

NextStatus == ParseFileStatusNull \/ ParseFileStatusChange

InitStatus == StartStatus /\ AnalysisIdle /\ LogIdle /\ DiffIdle /\ BlameIdle /\ PorcelainIdle /\ MessageIdle /\ SessionIdle /\ EntryIdle /\ UpdateIdle /\ RollbackIdle

SpecStatus == InitStatus /\ [][NextStatus]_vars

NextPorcelain == GetGitStatusCall

InitPorcelain == StartPorcelain /\ AnalysisIdle /\ LogIdle /\ DiffIdle /\ BlameIdle /\ StatusIdle /\ MessageIdle /\ SessionIdle /\ EntryIdle /\ UpdateIdle /\ RollbackIdle

SpecPorcelain == InitPorcelain /\ [][NextPorcelain]_vars

NextMessage ==
    \/ GenerateMessageThrows \/ GenerateConventional \/ GenerateGitmoji
    \/ GenerateDetailed \/ GenerateSimple

InitMessage == StartMessage /\ AnalysisIdle /\ LogIdle /\ DiffIdle /\ BlameIdle /\ StatusIdle /\ PorcelainIdle /\ SessionIdle /\ EntryIdle /\ UpdateIdle /\ RollbackIdle

SpecMessage == InitMessage /\ [][NextMessage]_vars

NextSession ==
    \/ SessionParseDiff \/ SessionParseBlame \/ SessionParseFileStatus
    \/ SessionParseGitLogEntry
    \/ DiffHunkHeader \/ DiffUnmatchedHeader \/ DiffHunkLine \/ DiffSkipLine \/ DiffFinish
    \/ BlameAuthorLine \/ BlameAuthorTimeLine \/ BlameHashLine
    \/ BlameContentLine \/ BlameOtherLine \/ BlameFinish

InitSession == AnalysisIdle /\ LogIdle /\ DiffIdle /\ BlameIdle /\ StatusIdle /\ PorcelainIdle /\ MessageIdle /\ SessionIdle /\ EntryIdle /\ UpdateIdle /\ RollbackIdle

SpecSession == InitSession /\ [][NextSession]_vars

NextEntry == ParseShortEntry

InitEntry == StartEntry /\ AnalysisIdle /\ LogIdle /\ DiffIdle /\ BlameIdle /\ StatusIdle /\ PorcelainIdle /\ MessageIdle /\ SessionIdle /\ UpdateIdle /\ RollbackIdle

SpecEntry == InitEntry /\ [][NextEntry]_vars


\* the calls that begin: the timer and the three tools
UpdateStarts ==
    \E c \in UpdateCalls :
        \/ TimerFires(c)
        \/ CallCheckForUpdates(c)
        \/ CallApplyUpdate(c)
        \/ CallRollbackUpdate(c)

\* the steps of the calls in flight, one per await
UpdateSteps ==
    \E c \in UpdateCalls :
        \/ CheckFetched(c)
        \/ CheckDescribed(c)
        \/ CheckLogged(c)
        \/ CheckFails(c)
        \/ ApplyBackupDirMade(c)
        \/ ApplyBackupCopied(c)
        \/ ApplyCheckedOut(c)
        \/ ApplyInstalled(c)
        \/ ApplyBuilt(c)
        \/ ApplyFails(c)
        \/ RollbackAccessed(c)
        \/ RollbackStepped(c)
        \/ RollbackDone(c)
        \/ RollbackFails(c)

UpdateInitialize == InitializeOk \/ InitializeReadFails \/ InitializeRemoteFails

\* every call runs between the awaits of the others
NextUpdate == UpdateInitialize \/ UpdateStarts \/ UpdateSteps

InitUpdate == StartUpdate /\ AnalysisIdle /\ LogIdle /\ DiffIdle /\ BlameIdle /\ StatusIdle /\ PorcelainIdle /\ MessageIdle /\ SessionIdle /\ EntryIdle /\ RollbackIdle

SpecUpdate == InitUpdate /\ [][NextUpdate]_vars

\* no call in flight
Quiet == \A c \in UpdateCalls : ~InProgress(c)

\* the calls one after the other: a call begins when the one before is over
NextUpdateSerial == UpdateInitialize \/ (Quiet /\ UpdateStarts) \/ UpdateSteps

SpecUpdateSerial == InitUpdate /\ [][NextUpdateSerial]_vars


NextRollback ==
    \/ TimePasses
    \/ RollbackCalled
    \/ BackupDirMade
    \/ BackupFileCopied
    \/ BackupBranchMade
    \/ Reverted
    \/ LastCommandDone
    \/ RollbackStepFails

InitRollback == StartRollback /\ AnalysisIdle /\ LogIdle /\ DiffIdle /\ BlameIdle /\ StatusIdle /\ PorcelainIdle /\ MessageIdle /\ SessionIdle /\ EntryIdle /\ UpdateIdle

SpecRollback == InitRollback /\ [][NextRollback]_vars

(***************************************************************************)
(* Properties of analyzeFiles                                              *)
(***************************************************************************)
SeqBag(s) == [x \in {s[i] : i \in DOMAIN s} |-> Cardinality({i \in DOMAIN s : s[i] = x})]

Reorderings(s) == {[i \in 1..Len(s) |-> s[p[i]]] : p \in Permutations(1..Len(s))}

\* C1: the three scores analyzeFiles returns lie in [0,100], for every list
\* of files, readable or not.
C1_ScoresInRange ==
    apc = "done" =>
        /\ analysis.impactScore \in 0..100
        /\ analysis.complexityScore \in 0..100
        /\ analysis.performanceImpact.score \in 0..100

\* a run whose accumulated complexity exceeded 100 and was capped
C1_Witness ==
    /\ apc = "done"
    /\ Accumulate(EmptyAnalysis, files).complexityScore > 100
    /\ analysis.complexityScore = 100
    /\ \E i \in 1..Len(files) : ~Readable(files[i])

\* C2: the result does not depend on the order of the files: every
\* reordering of the list gives the same three final scores and the same
\* security issues and performance details as multisets.
C2_OrderIndependent ==
    apc = "done" =>
        \A other \in Reorderings(files) :
            LET r == analyzeFiles(other)
            IN /\ r.impactScore = analysis.impactScore
               /\ r.complexityScore = analysis.complexityScore
               /\ r.performanceImpact.score = analysis.performanceImpact.score
               /\ SeqBag(r.securityIssues) = SeqBag(analysis.securityIssues)
               /\ SeqBag(r.performanceImpact.details)
                     = SeqBag(analysis.performanceImpact.details)

\* a finished run over files with different contributions, whose issue lists
\* come out in another order when the files are reordered
C2_Witness ==
    /\ apc = "done"
    /\ \E i, j \in 1..Len(files) :
          /\ Readable(files[i]) /\ Readable(files[j])
          /\ FileReport[files[i]].complexity # FileReport[files[j]].complexity
    /\ \E other \in Reorderings(files) :
          analyzeFiles(other).securityIssues # analysis.securityIssues

\* C3: a file that cannot be read contributes nothing and does not abort the
\* batch: the result is that of the list without the unreadable files, and
\* each unreadable file is reported once.
C3_UnreadableSkipped ==
    apc = "done" =>
        /\ analysis = analyzeFiles(SelectSeq(files, Readable))
        /\ errLog = SelectSeq(files, LAMBDA f : ~Readable(f))

\* an unreadable file followed by a readable one that raised the scores
C3_Witness ==
    /\ apc = "done"
    /\ \E i, j \in 1..Len(files) :
          /\ i < j
          /\ ~Readable(files[i])
          /\ Readable(files[j])
          /\ FileReport[files[j]].complexity > 0
          /\ analysis.complexityScore >= FileReport[files[j]].complexity
    /\ errLog # <<>>


(***************************************************************************)
(* Properties of the log parser                                            *)
(***************************************************************************)
ExpectedStats(st) ==
    [files |-> st.files,
     additions |-> IF st.ins = None THEN 0 ELSE st.ins,
     deletions |-> IF st.del = None THEN 0 ELSE st.del]

\* C4: a block whose header line is followed by a trailing summary line
\* "N file(s) changed[, A insertion(s)(+)][, D deletion(s)(-)]" is parsed
\* into a Commit with stats.files = N, stats.additions = A and
\* stats.deletions = D, an omitted clause giving 0.
C4_StatsFromSummary ==
    (lpc = "entry" /\ logRecords[entryIdx].has) =>
        commit.stats = ExpectedStats(logRecords[entryIdx])

\* C5: a log of k records is parsed into exactly k Commit records, the i-th
\* built from the i-th record, in input order.
C5_OneCommitPerRecord ==
    lpc = "log" =>
        /\ Len(commits) = Len(logRecords)
        /\ \A i \in 1..Len(commits) :
              /\ commits[i].hash = Hashes[i]
              /\ commits[i].author = AuthorName
              /\ commits[i].date = DateOf(KnownDates[DateText])
              /\ commits[i].message = Subject


(***************************************************************************)
(* Properties of parseDiff                                                 *)
(***************************************************************************)
InputLine(i) == DiffLineTable[diffInput[i]]

\* the diff is one header "@@ -a,b +c,d @@" followed by body lines only
OneHunkDiff ==
    /\ Len(diffInput) >= 1
    /\ InputLine(1).kind = "header"
    /\ InputLine(1).b # None /\ InputLine(1).d # None
    /\ \A i \in 2..Len(diffInput) : InputLine(i).kind = "body"

BodyLinesStarting(ch) ==
    Cardinality({i \in 2..Len(diffInput) : StartsWith(InputLine(i).text, <<ch>>)})

\* C6: a diff of one header "@@ -a,b +c,d @@" followed by body lines gives
\* exactly one hunk with oldStart = a, oldLines = b, newStart = c,
\* newLines = d, additions = number of body lines beginning with '+' and
\* deletions = number of body lines beginning with '-'.
C6_OneHunk ==
    (dpc = "done" /\ OneHunkDiff) =>
        /\ Len(ReturnedDiff.hunks) = 1
        /\ ReturnedDiff.hunks[1].oldStart = InputLine(1).a
        /\ ReturnedDiff.hunks[1].oldLines = InputLine(1).b
        /\ ReturnedDiff.hunks[1].newStart = InputLine(1).c
        /\ ReturnedDiff.hunks[1].newLines = InputLine(1).d
        /\ ReturnedDiff.additions = BodyLinesStarting("+")
        /\ ReturnedDiff.deletions = BodyLinesStarting("-")

\* the diff "@@ -1,3 +1,4 @@\n line\n+added\n-removed\n" parsed to the end
C6_Witness ==
    /\ dpc = "done"
    /\ OneHunkDiff
    /\ Len(diffInput) = 4
    /\ InputLine(1).a = 1 /\ InputLine(1).b = 3 /\ InputLine(1).c = 1 /\ InputLine(1).d = 4
    /\ ReturnedDiff.additions = 1
    /\ ReturnedDiff.deletions = 1
    /\ Len(ReturnedDiff.hunks) = 1

\* C7: file-level "+++"/"---" marker lines and hunk-header lines never
\* increment additions or deletions, also when the markers of a later file
\* come after an earlier file's hunk.
C7_MarkersNotCounted ==
    [][(/\ dpc = "loop"
        /\ diffIdx < Len(diffInput)
        /\ InputLine(diffIdx + 1).kind \in {"marker", "header"})
       => (additions' = additions /\ deletions' = deletions)]_vars

(***************************************************************************)
(* Properties of parseBlame                                                *)
(***************************************************************************)
\* the record a block that holds all its lines stands for
BlameRecord(i, n) ==
    [hash |-> Hashes[i], author |-> Authors[i], date |-> DateOf(AuthorTime(i) * 1000),
     content |-> ContentOf(i), line |-> n]

HasAllLines(b) == b.hashLine # "none" /\ b.author /\ b.time

\* the blocks parseBlame can see as complete: "hash <sha>", author, author-time
Emittable(b) == b.hashLine = "keyword" /\ b.author /\ b.time

\* C8: a blame text of n blocks, each with a commit-hash line, an author
\* line, an author-time line and one content line, gives exactly n BlameLine
\* records, the i-th with the i-th block's hash, author, date and content
\* and the line number i.
C8_OneRecordPerBlock ==
    (bpc = "done" /\ \A i \in 1..Len(blameInput) : HasAllLines(blameInput[i])) =>
        /\ Len(results) = Len(blameInput)
        /\ \A i \in 1..Len(results) : results[i] = BlameRecord(i, i)

\* the records of the blocks that are complete by their own lines, numbered
\* in output order
RECURSIVE RecordsOfBlocks(_, _, _)
RecordsOfBlocks(input, i, emitted) ==
    IF i > Len(input) THEN <<>>
    ELSE IF Emittable(input[i])
         THEN <<BlameRecord(i, emitted + 1)>> \o RecordsOfBlocks(input, i + 1, emitted + 1)
         ELSE RecordsOfBlocks(input, i + 1, emitted)

AtContentLine ==
    /\ bpc = "loop"
    /\ blameIdx < Len(blameLines)
    /\ StartsWith(CurrentBlameLine, <<"\t">>)

\* C9: a content line that arrives while hash, author or date is missing
\* emits nothing and raises nothing; the partial record is reset after
\* every content line, so no field collected before a content line is used
\* for a later block.
C9_DropAndReset ==
    /\ [][AtContentLine =>
            /\ current' = EmptyPartial
            /\ bpc' = "loop"
            /\ blameIdx' = blameIdx + 1
            /\ (~Complete(current) => results' = results)]_vars
    /\ [](bpc = "done" => results = RecordsOfBlocks(blameInput, 1, 0))

\* a block with some of its fields was dropped and a later block emitted
C9_Witness ==
    /\ bpc = "done"
    /\ Len(blameInput) = 2
    /\ blameInput[1].author /\ blameInput[1].hashLine = "keyword" /\ ~blameInput[1].time
    /\ Emittable(blameInput[2])
    /\ Len(results) = 1
    /\ results[1].hash = Hashes[2]

(***************************************************************************)
(* Properties of parseFileStatus                                           *)
(***************************************************************************)
\* C10: for a status line "R oldPath newPath" -- the status R and at least
\* two path tokens apart by white space -- the result has the status
\* renamed, oldPath the first token after the status and path the last.
C10_RenameLine ==
    (spc = "done" /\ statusInput.status = <<"R">> /\ Len(statusInput.paths) >= 2) =>
        /\ fileChange # Null
        /\ fileChange.status = "renamed"
        /\ fileChange.oldPath = statusInput.paths[1]
        /\ fileChange.path = statusInput.paths[Len(statusInput.paths)]

\* a rename line with two different paths was parsed
C10_Witness ==
    /\ spc = "done"
    /\ statusInput.status = <<"R">>
    /\ statusInput.paths = << <<"a", ".", "t", "s">>, <<"b", ".", "t", "s">> >>
    /\ fileChange # Null
    /\ fileChange.status = "renamed"
    /\ fileChange.oldPath = <<"a", ".", "t", "s">>
    /\ fileChange.path = <<"b", ".", "t", "s">>

(***************************************************************************)
(* Properties of the records made from status text                         *)
(***************************************************************************)
HasOldPath(change) == change.oldPath # Undefined

\* C11: every FileChange made from status text -- by parseFileStatus and
\* by getGitStatus -- has an oldPath if and only if its status is renamed.
C11_OldPathIffRenamed ==
    /\ (spc = "done" /\ fileChange # Null) =>
           (HasOldPath(fileChange) <=> fileChange.status = "renamed")
    /\ gpc = "done" =>
           \A i \in 1..Len(gitStatus) :
               HasOldPath(gitStatus[i]) <=> gitStatus[i].status = "renamed"

(***************************************************************************)
(* Properties of generateMessage                                           *)
(***************************************************************************)
\* the first line the conventional style is to render
ConventionalFirstLine ==
    determineChangeType(changeList)
        \o (IF style.includeScope THEN <<"(">> \o determineScope(changeList) \o <<")">> ELSE <<>>)
        \o <<":", " ">> \o generateDescription(changeList)

\* C12: the conventional style renders its first line as
\* type(scope): description with includeScope and as type: description
\* without, whenever that line fits in maxLength; the change
\* {path: 'src/a.ts', status: 'added'} with includeScope, no footer and
\* maxLength 72 gives a message that starts with 'feat(src): Add a'.
C12_ConventionalFirstLine ==
    (mpc = "done" /\ style.type = "conventional") =>
        /\ Len(ConventionalFirstLine) <= style.maxLength =>
               FirstLine(message) = ConventionalFirstLine
        /\ ( /\ changeList = << [path |-> <<"s", "r", "c", "/", "a", ".", "t", "s">>, status |-> "added"] >>
             /\ style.includeScope /\ ~style.includeFooter /\ style.maxLength = 72 )
             => StartsWith(message, <<"f", "e", "a", "t", "(", "s", "r", "c", ")", ":", " ", "A", "d", "d", " ", "a">>)

\* the example of the claim was rendered
C12_Witness ==
    /\ mpc = "done"
    /\ style.type = "conventional"
    /\ changeList = << [path |-> <<"s", "r", "c", "/", "a", ".", "t", "s">>, status |-> "added"] >>
    /\ style.includeScope /\ ~style.includeFooter /\ style.maxLength = 72
    /\ message = <<"f", "e", "a", "t", "(", "s", "r", "c", ")", ":", " ", "A", "d", "d", " ", "a">>

\* the type the rules give when taken in their order
TypeByRules(chs) ==
    IF \E i \in 1..Len(chs) : chs[i].status = "added" THEN <<"f", "e", "a", "t">>
    ELSE IF \E i \in 1..Len(chs) :
                chs[i].status = "modified" /\ MatchesFixPattern(chs[i].path) THEN <<"f", "i", "x">>
    ELSE IF \E i \in 1..Len(chs) : chs[i].status = "modified" THEN <<"r", "e", "f", "a", "c", "t", "o", "r">>
    ELSE <<"c", "h", "o", "r", "e">>

OnlyDeletedOrRenamed(chs) ==
    \A i \in 1..Len(chs) : chs[i].status \in {"deleted", "renamed"}

\* C13: the commit type is given by the first rule that matches, in the
\* order: feat if a change is added; fix if a modified change's path matches
\* test/spec/fix; refactor if a modified change exists; else chore.  A list
\* of deleted and renamed entries only gives chore.
C13_TypeByFirstRule ==
    (mpc = "done" /\ style.type = "conventional" /\ ~style.includeScope
       /\ Len(ConventionalFirstLine) <= style.maxLength) =>
        /\ StartsWith(message, TypeByRules(changeList) \o <<":">>)
        /\ OnlyDeletedOrRenamed(changeList) => StartsWith(message, <<"c", "h", "o", "r", "e">> \o <<":">>)

\* an added entry after a modified one whose path matches fix: feat wins
C13_Witness ==
    /\ mpc = "done"
    /\ style.type = "conventional" /\ ~style.includeScope /\ style.maxLength = 120
    /\ changeList = << [path |-> <<"l", "i", "b", "/", "F", "i", "x", ".", "t", "s">>, status |-> "modified"],
                       [path |-> <<"s", "r", "c", "/", "a", ".", "t", "s">>, status |-> "added"] >>
    /\ StartsWith(message, <<"f", "e", "a", "t">> \o <<":">>)

\* the length of the first line and the next k lines joined by line breaks
JoinedLength(lines, k) == Len(Join(SubSeq(lines, 1, k + 1), <<"\n">>))

\* the number of lines after the first that truncation keeps
KeptLines(lines, maxLength) ==
    MaxOf({k \in 0..(Len(lines) - 1) :
              \A j \in 1..k : JoinedLength(lines, j) <= maxLength - 3})

\* truncation as a function of the text and the limit
Truncated(text, maxLength) ==
    LET lines == Split(text, <<"\n">>) IN
    IF Len(text) <= maxLength THEN text
    ELSE IF Len(lines[1]) > maxLength
         THEN SubSeq(lines[1], 1, maxLength - 3) \o <<".", ".", ".">>
    ELSE Join(SubSeq(lines, 1, KeptLines(lines, maxLength) + 1), <<"\n">>) \o <<"\n", ".", ".", ".">>

\* C14: truncateMessage, applied by every style to its text, returns the
\* text as it is when it fits in maxLength; else the first maxLength - 3
\* characters of the first line and '...' when the first line alone is
\* longer than maxLength; else the first line and the longest run of next
\* lines whose running total stays within maxLength - 3, then a '...' line.
C14_Truncation ==
    mpc = "done" =>
        message = Truncated(RenderedText(changeList, style), style.maxLength)

\* a text too long whose first line fits: next lines kept, then '...'
C14_Witness ==
    /\ mpc = "done"
    /\ Len(RenderedText(changeList, style)) > style.maxLength
    /\ Len(FirstLine(RenderedText(changeList, style))) <= style.maxLength
    /\ KeptLines(Split(RenderedText(changeList, style), <<"\n">>), style.maxLength) >= 2
    /\ Len(message) > Len(FirstLine(message)) + 4

(***************************************************************************)
(* Properties of the parsers as a group                                    *)
(***************************************************************************)
\* the finished calls, the last one with them once it has returned
History ==
    IF running = "none" \/ (running = "diff" /\ dpc # "done")
                        \/ (running = "blame" /\ bpc # "done")
    THEN parsed
    ELSE Append(parsed, LastCall)

\* C15: the parsers keep no state between calls: the same text parsed
\* twice, with any other parse calls in between, gives equal results.
C15_ParsersKeepNoState ==
    \A i \in 1..Len(History) : \A j \in 1..Len(History) :
        (History[i].parser = History[j].parser /\ History[i].input = History[j].input)
            => History[i].result = History[j].result

\* the same blame text parsed before and after a call of parseDiff, each
\* time to one record
C15_Witness ==
    /\ Len(History) = 3
    /\ History[1].parser = "blame" /\ History[3].parser = "blame"
    /\ History[2].parser = "diff"
    /\ History[1].input = History[3].input
    /\ Len(History[1].result) = 1
    /\ History[3].result = History[1].result

(***************************************************************************)
(* Properties of parseGitLogEntry on short headers                         *)
(***************************************************************************)
\* C16: parseGitLogEntry does not fail on a block whose header line has
\* fewer than four fields; every field the header lacks among hash,
\* author, date text and subject is the empty string in the Commit (a date
\* made of the empty text is an invalid date).
C16_MissingFieldsEmpty ==
    (epc = "done" /\ entryInput.fields < 4) =>
        /\ entryInput.fields < 2 => entryCommit.author = <<>>
        /\ entryInput.fields < 3 => entryCommit.date = InvalidDate
        /\ entryCommit.message = <<>>

(***************************************************************************)
(* Properties of the scores of analyzeFiles                                *)
(***************************************************************************)
MaxAdded == 2

\* the content of a file with k more keyword occurrences, on its last line
RaisedContent(file, k) == FileContents[file] \o Repeat(<<" ", "i", "f">>, k)

\* keyword count, largest per-line '{' count and complexity of every file,
\* as it is (k = 0) and raised by k
RaisedReport ==
    [p \in DOMAIN FileContents |->
        [k \in 0..MaxAdded |->
            [keywords |-> CountKeywords(RaisedContent(p, k)),
             depth |-> NestingDepth(RaisedContent(p, k)),
             complexity |-> calculateComplexityScore(RaisedContent(p, k))]]]

\* the complexity total of the list when its i-th file is raised by k
RECURSIVE RaisedTotal(_, _, _, _)
RaisedTotal(fs, j, i, k) ==
    IF j > Len(fs) THEN 0
    ELSE (IF ~Readable(fs[j]) THEN 0
          ELSE IF j = i THEN RaisedReport[fs[j]][k].complexity
          ELSE FileReport[fs[j]].complexity)
         + RaisedTotal(fs, j + 1, i, k)

RaisedScore(fs, i, k) ==
    Normalize([EmptyAnalysis EXCEPT !.complexityScore = RaisedTotal(fs, 1, i, k)]).complexityScore

\* C17: for a fixed file list, more control-flow keywords in one file, the
\* other files and that file's largest per-line count of '{' unchanged,
\* never give a lower complexityScore.
C17_KeywordsNeverLower ==
    apc = "done" =>
        \A i \in 1..Len(files) : \A k \in 1..MaxAdded :
            ( /\ Readable(files[i])
              /\ RaisedReport[files[i]][k].keywords > RaisedReport[files[i]][0].keywords
              /\ RaisedReport[files[i]][k].depth = RaisedReport[files[i]][0].depth )
            => RaisedScore(files, i, k) >= analysis.complexityScore

\* a run below the cap whose score rises when one of its files is raised
C17_Witness ==
    /\ apc = "done"
    /\ Len(files) >= 2
    /\ analysis.complexityScore \in 1..99
    /\ \E i \in 1..Len(files) :
          /\ Readable(files[i])
          /\ RaisedReport[files[i]][1].keywords = RaisedReport[files[i]][0].keywords + 1
          /\ RaisedScore(files, i, 1) > analysis.complexityScore

\* the sum of the contributions of the readable files among the first n
RECURSIVE Contributions(_, _, _)
Contributions(fs, n, metric) ==
    IF n = 0 THEN 0
    ELSE Contributions(fs, n - 1, metric)
         + (IF ~Readable(fs[n]) THEN 0
            ELSE IF metric = "impact" THEN FileReport[fs[n]].impact
            ELSE IF metric = "complexity" THEN FileReport[fs[n]].complexity
            ELSE Len(FileReport[fs[n]].performance))

\* C20: each of the three scores is min(100, sum of the contributions of
\* all readable files): the cap is applied once, to the full total; while
\* the loop runs the scores are the plain partial sums.
C20_CapOnceOnTotal ==
    /\ apc = "loop" =>
          /\ analysis.impactScore = Contributions(files, fileIdx, "impact")
          /\ analysis.complexityScore = Contributions(files, fileIdx, "complexity")
          /\ analysis.performanceImpact.score = Contributions(files, fileIdx, "performance")
    /\ apc = "done" =>
          /\ analysis.impactScore = Min(100, Contributions(files, Len(files), "impact"))
          /\ analysis.complexityScore = Min(100, Contributions(files, Len(files), "complexity"))
          /\ analysis.performanceImpact.score
                = Min(100, Contributions(files, Len(files), "performance"))

\* a total above 100 made of contributions that are each below 100: capped
\* at the end, the other scores being their plain sums
C20_Witness ==
    /\ apc = "done"
    /\ Contributions(files, Len(files), "complexity") > 100
    /\ \A i \in 1..Len(files) : Readable(files[i]) => FileReport[files[i]].complexity < 100
    /\ analysis.complexityScore = 100
    /\ analysis.impactScore = Contributions(files, Len(files), "impact")
    /\ analysis.impactScore > 0

(***************************************************************************)
(* Properties of the hunks of parseDiff                                    *)
(***************************************************************************)
\* every line of the input that begins with '@@' is a hunk header
AllHeadersWellFormed ==
    \A i \in 1..Len(diffInput) : InputLine(i).kind # "combined"

HeaderPositions == {i \in 1..Len(diffInput) : InputLine(i).kind = "header"}

\* the position of the n-th header line
HeaderPosition(n) ==
    CHOOSE p \in HeaderPositions : Cardinality({q \in HeaderPositions : q <= p}) = n

\* the last line before the header after the n-th, or the last of the lines
SegmentEnd(n) ==
    IF n = Cardinality(HeaderPositions) THEN Len(diffLines) ELSE HeaderPosition(n + 1) - 1

\* the lines i..j of the diff, each with its line break
RECURSIVE LinesText(_, _)
LinesText(i, j) ==
    IF i > j THEN <<>> ELSE diffLines[i] \o <<"\n">> \o LinesText(i + 1, j)

\* C18: when every '@@' line is a well-formed header, parseDiff returns one
\* hunk per header line, in order: a header met while a hunk is open emits
\* that hunk before the next opens, the end of the input emits the hunk
\* still open, the content of a hunk is its header line and the lines up to
\* the next header, and a diff without a header gives no hunk and
\* additions = deletions = 0.
C18_OneHunkPerHeader ==
    AllHeadersWellFormed =>
        /\ dpc = "loop" =>
              LET seen == Cardinality({p \in HeaderPositions : p <= diffIdx})
              IN  /\ currentHunk # 0 <=> seen > 0
                  /\ Len(hunks) = IF seen = 0 THEN 0 ELSE seen - 1
        /\ dpc = "done" =>
              /\ Len(ReturnedDiff.hunks) = Cardinality(HeaderPositions)
              /\ \A n \in 1..Len(ReturnedDiff.hunks) :
                    LET h == ReturnedDiff.hunks[n]
                        line == InputLine(HeaderPosition(n))
                    IN  /\ h.oldStart = line.a
                        /\ h.newStart = line.c
                        /\ h.oldLines = (IF line.b = None THEN 0 ELSE line.b)
                        /\ h.newLines = (IF line.d = None THEN 0 ELSE line.d)
                        /\ h.content = LinesText(HeaderPosition(n), SegmentEnd(n))
              /\ HeaderPositions = {} =>
                    /\ ReturnedDiff.hunks = <<>>
                    /\ ReturnedDiff.additions = 0
                    /\ ReturnedDiff.deletions = 0

\* two headers, each followed by a body line, parsed to two hunks
C18_Witness ==
    /\ dpc = "done"
    /\ AllHeadersWellFormed
    /\ Len(diffInput) = 4
    /\ HeaderPositions = {1, 3}
    /\ InputLine(2).kind = "body" /\ InputLine(4).kind = "body"
    /\ Len(ReturnedDiff.hunks) = 2
    /\ ReturnedDiff.hunks[1].oldStart = InputLine(1).a
    /\ ReturnedDiff.hunks[2].oldStart = InputLine(3).a

(***************************************************************************)
(* Properties of the line numbers of parseBlame                            *)
(***************************************************************************)
\* C19: the line numbers of the records parseBlame returns are 1, 2, ..., k
\* in output order, whatever number of blocks was dropped and whatever line
\* numbers the input holds.
C19_SequentialLineNumbers ==
    \A i \in 1..Len(results) : results[i].line = i

\* the first block, which holds the line numbers git printed, was dropped;
\* the record of the second block has the line number 1
C19_Witness ==
    /\ bpc = "done"
    /\ Len(blameInput) = 2
    /\ blameInput[1].hashLine = "porcelain"
    /\ Emittable(blameInput[2])
    /\ Len(results) = 1
    /\ results[1].content = ContentOf(2)
    /\ results[1].line = 1

(***************************************************************************)
(* Properties of the scope                                                 *)
(***************************************************************************)
\* the path has a directory part
HasDirectory(path) == Includes(path, <<"/">>)

\* the text before the first "/"
FirstDirectory(path) == SubSeq(path, 1, IndexFrom(path, <<"/">>, 1) - 1)

\* the scope by the three cases of the rule
ScopeByCases(chs) ==
    IF /\ \A i \in 1..Len(chs) : HasDirectory(chs[i].path)
       /\ \A i, j \in 1..Len(chs) : FirstDirectory(chs[i].path) = FirstDirectory(chs[j].path)
    THEN FirstDirectory(chs[1].path)
    ELSE IF \A i \in 1..Len(chs) : ~HasDirectory(chs[i].path) THEN <<"r", "o", "o", "t">>
    ELSE <<"m", "u", "l", "t", "i", "p", "l", "e">>

\* C21: determineScope gives the shared first path segment when every path
\* has a directory part and all share it, 'root' when no path has a
\* directory part, and 'multiple' in every other case, a mix of root-level
\* files and files under a directory included.
C21_ScopeByCases ==
    (mpc = "done" /\ style.type = "conventional" /\ style.includeScope
       /\ Len(ConventionalFirstLine) <= style.maxLength) =>
        StartsWith(message,
                   determineChangeType(changeList) \o <<"(">> \o ScopeByCases(changeList)
                       \o <<")">> \o <<":">>)

(***************************************************************************)
(* Properties of the detailed style                                        *)
(***************************************************************************)
Marker == <<"-", " ", ".", ".", ".", " ", "a", "n", "d", " ", "m", "o", "r", "e", " ", "c", "h", "a", "n", "g", "e", "s">>

\* one bullet of the change list
BulletOf(ch) == <<"-", " ">> \o StatusText(ch.status) \o <<":", " ">> \o ch.path

\* the text up to and including the "Changes:" line
DetailedHead ==
    determineChangeType(changeList) \o <<"(">> \o determineScope(changeList) \o <<")", ":", " ">>
        \o generateDescription(changeList) \o <<"\n">> \o <<"\n">> \o <<"C", "h", "a", "n", "g", "e", "s", ":">>

\* the first k bullets, each on a line of its own
RECURSIVE BulletText(_)
BulletText(k) ==
    IF k = 0 THEN <<>> ELSE BulletText(k - 1) \o <<"\n">> \o BulletOf(changeList[k])

\* the number of bullets that fit: appending the next one would pass maxLength
FitCount ==
    CHOOSE k \in 0..Len(changeList) :
        /\ \A j \in 1..k : Len(DetailedHead) + Len(BulletText(j)) <= style.maxLength
        /\ k = Len(changeList) \/ Len(DetailedHead) + Len(BulletText(k + 1)) > style.maxLength

\* the lines of the returned message
MessageLines == Split(message, <<"\n">>)

\* the bullets the returned message lists, in order, the marker aside
ListedBullets ==
    LET IsListed(line) == StartsWith(line, <<"-", " ">>) /\ line # Marker
    IN  SelectSeq(MessageLines, IsListed)

MarkerListed == \E i \in 1..Len(MessageLines) : MessageLines[i] = Marker

\* the text before truncateMessage, by the rule of the bullets
DetailedByRule ==
    DetailedHead \o BulletText(FitCount)
        \o (IF FitCount < Len(changeList) THEN <<"\n">> \o Marker ELSE <<>>)
        \o (IF style.includeFooter THEN <<"\n">> \o <<"\n">> \o <<"S", "c", "o", "p", "e", ":", " ">> \o determineScope(changeList) ELSE <<>>)

\* C22 as stated, read on the message generateMessage returns: the bullets
\* listed are the changes that fit, in input order, and the 'and more
\* changes' marker is listed exactly when a bullet was cut.
C22_BulletsAsReturned ==
    (mpc = "done" /\ style.type = "detailed") =>
        /\ ListedBullets = [i \in 1..FitCount |-> BulletOf(changeList[i])]
        /\ MarkerListed <=> FitCount < Len(changeList)

\* Before truncateMessage the rule holds: the text generateDetailedMessage
\* builds lists the longest prefix of the change list that fits maxLength and
\* the marker follows exactly when a bullet was cut; the message returned is
\* truncateMessage of that text.
BulletsBeforeTruncation ==
    (mpc = "done" /\ style.type = "detailed") =>
        message = truncateMessage(DetailedByRule, style.maxLength)

(***************************************************************************)
(* Properties of the length of the message                                 *)
(***************************************************************************)
\* C23: for a non-empty change list, every style and every maxLength >= 3,
\* the message generateMessage returns is at most maxLength characters long.
C23_AtMostMaxLength ==
    (mpc = "done" /\ changeList # <<>> /\ style.maxLength >= 3) =>
        Len(message) <= style.maxLength

(***************************************************************************)
(* Properties of the '@@' lines that are no hunk header                    *)
(***************************************************************************)
\* C24: a '@@' line that does not match the hunk pattern never makes a hunk
\* appear more than once in the list parseDiff returns: no hunk object is
\* listed twice, the hunks returned are as many as the well-formed header
\* lines, and a hunk already emitted is no longer the open hunk that later
\* lines are appended to.
C24_UnmatchedLineEmitsNothing ==
    /\ \A i, j \in 1..Len(hunks) : i # j => hunks[i] # hunks[j]
    /\ dpc = "loop" => \A i \in 1..Len(hunks) : hunks[i] # currentHunk
    /\ dpc = "done" => Len(ReturnedDiff.hunks) = Cardinality(HeaderPositions)

(***************************************************************************)
(* Properties of UpdateService                                             *)
(***************************************************************************)
\* C25: once a checkForUpdates has returned, after any further sequence of
\* completed checkForUpdates, applyUpdate and rollbackUpdate calls,
\* updateAvailable is true exactly when latestVersion differs from
\* currentVersion.
C25_AvailableIffDiffers ==
    (Quiet /\ \E c \in UpdateCalls : calls[c].result.kind = "check") =>
        (updateStatus.updateAvailable <=> updateStatus.latestVersion # updateStatus.currentVersion)

\* the cycles of the timer still running
RunningCycles == {c \in UpdateCalls : calls[c].origin = "timer" /\ InProgress(c)}

\* the applyUpdate calls still running
RunningApplies == {c \in UpdateCalls : calls[c].op = "applyUpdate" /\ InProgress(c)}

\* C26: the timer never starts a check-and-apply cycle while a cycle it
\* started earlier is still running, and at most one applyUpdate is in
\* progress at any time, also when a tool call to applyUpdate arrives.
C26_OneUpdateAtATime ==
    /\ Cardinality(RunningCycles) <= 1
    /\ Cardinality(RunningApplies) <= 1

\* the fields of the status an update sets
UpdateFields(st) ==
    <<st.currentVersion, st.updateAvailable, st.pendingChanges, st.lastUpdate>>

\* C27: a failed update operation leaves the status unchanged. No step of
\* applyUpdate but its last, and no failure of a step, changes
\* currentVersion, updateAvailable, pendingChanges or lastUpdate, and a
\* failure ends the call with the error thrown; rollbackUpdate never
\* throws, and when it fails (the missing backup included) it returns
\* success = false with the currentVersion the status has kept.
C27_FailureKeepsStatus ==
    [][\A c \in UpdateCalls :
          /\ (calls[c].op = "applyUpdate" /\ calls'[c] # calls[c] /\ calls'[c].pc # "returned") =>
                /\ UpdateFields(updateStatus') = UpdateFields(updateStatus)
                /\ calls'[c].pc = "threw" => calls'[c].result.kind = "error"
          /\ (calls[c].op = "rollbackUpdate" /\ calls'[c] # calls[c]) =>
                /\ calls'[c].pc # "threw"
                /\ calls'[c].pc # "returned" => updateStatus' = updateStatus
                /\ (calls'[c].pc = "returned" /\ ~calls'[c].result.success) =>
                      /\ updateStatus' = updateStatus
                      /\ calls'[c].result.currentVersion = updateStatus.currentVersion]_vars

\* an applyUpdate has failed after its backup was written, and a
\* rollbackUpdate has failed for want of a backup
C27_Witness ==
    \E c, d \in UpdateCalls :
        /\ calls[c].op = "applyUpdate"
        /\ calls[c].pc = "threw"
        /\ backups # {}
        /\ calls[d].op = "rollbackUpdate"
        /\ calls[d].pc = "returned"
        /\ ~calls[d].result.success
        /\ \E v \in Versions : calls[d].result.error = <<"N", "o", " ", "b", "a", "c", "k", "u", "p", " ", "f", "o", "u", "n", "d", " ", "f", "o", "r", " ", "v", "e", "r", "s", "i", "o", "n", " ">> \o v

ChangingCommands == {"revert", "commit", "checkout"}

\* the steps of createBackup
BackupCommands == {"mkdir", "copyFile", "branch"}

\* C29: rollback never throws: a failure of the backup or of a git command
\* ends the call with {success: false, error}; with createBackup set the
\* backup is written before any of revert, commit and checkout runs, and
\* when the backup fails none of them runs.
C29_NeverThrowsBackupFirst ==
    /\ rpc \in {"idle", "call", "done"} \cup BackupCommands \cup ChangingCommands
    /\ (\E j \in 1..Len(ran) : ~ran[j].ok) =>
          /\ rpc = "done"
          /\ ~rollbackResult.success
          /\ rollbackResult.error # Undefined
    /\ rpc = "done" => rollbackResult.kind = "result"
    /\ options.createBackup = "true" =>
          \A i \in 1..Len(ran) :
              ran[i].cmd \in ChangingCommands =>
                  \E j \in 1..(i - 1) : ran[j].cmd \in {"copyFile", "branch"} /\ ran[j].ok
    /\ (\E j \in 1..Len(ran) : ran[j].cmd \in BackupCommands /\ ~ran[j].ok) =>
          \A i \in 1..Len(ran) : ran[i].cmd \notin ChangingCommands

\* the backup branch was made, the revert went through and the commit
\* failed: the result says so
C29_Witness ==
    /\ rpc = "done"
    /\ options.createBackup = "true"
    /\ Len(ran) = 4
    /\ ran[2] = [cmd |-> "branch", ok |-> TRUE]
    /\ ran[4] = [cmd |-> "commit", ok |-> FALSE]
    /\ ~rollbackResult.success

\* C30: when rollback succeeds with createBackup = true, the backupPath of
\* the result is a place createBackup has written the backup to, whatever
\* time has passed in between.
C30_BackupPathIsWritten ==
    (rpc = "done" /\ rollbackResult.success /\ options.createBackup = "true") =>
        rollbackResult.backupPath \in written

====
